---- MODULE Spec2Model ----
(***************************************************************************)
(* A model of the SOUL compiler's sanity-check passes                      *)
(* (soul_SanityCheckPass.h) and of the AST helpers they call (soul_AST.h:  *)
(* Graph::CycleDetector, Graph::RecursiveGraphDetector).                   *)
(*                                                                         *)
(* Every pass is a pure traversal of an AST built by the parser, so each   *)
(* component has its own specification: the parser's construction steps    *)
(* build an input, one action runs the pass over it and records what the   *)
(* pass raised.  An error is a record whose kind is the name of the        *)
(* Errors:: constructor the code calls.                                    *)
(***************************************************************************)
EXTENDS Integers, Sequences, FiniteSets, TLC

VARIABLES
    graph,          \* AST::Graph under the cycle detector: processorInstances, connections
    cycleResult,    \* what CycleDetector (g).check() raised
    graphs,         \* the graphs of a program: the target of each of their processor instances
    recRoot,        \* the graph RecursiveGraphDetector::check was called on
    recResult,      \* what it raised
    typeDecls,      \* the struct and using declarations: the type each member names
    typeRoot,       \* the declaration PostResolutionChecks visits
    typeResult,     \* what the visit raised
    prePc,          \* runPreResolution: where checkOverallStructure is
    preDepth,       \* the number of namespaces it is inside
    preModule,      \* the module it has reached
    preResult,      \* what it raised
    preAllOk,       \* history: every Processor it has checked obeys the run-function rule
    preNamespaces,  \* history: the number of namespaces it has entered
    incTokens,      \* PreAndPostIncOperatorCheck: history of what it has visited
    incStack,       \* its variablesModified/variablesReferenced, innermost statement last
    incResult,      \* what it raised
    delayLength,    \* PostResolutionChecks: the delayLength of the connection visited
    delayValue,     \* the value checkDelayLineLength was called with
    delayResult,    \* what was raised or returned
    evProcessor,    \* EventFunctionChecker: the Processor it visits
    evResult,       \* what it raised
    nmScope,        \* DuplicateNameChecker: the scope it visits, the names it declares by category
    nmResult,       \* what it raised
    dupFunctions,   \* checkForDuplicateFunctions: the functions of a processor or namespace
    dupResult,      \* what it raised
    declVariable,   \* PostResolutionChecks: the VariableDeclaration it visits
    declResult,     \* what it raised
    stDecls,        \* PostResolutionChecks: the struct declarations, type and constness of each member
    stRoot,         \* the StructDeclaration it visits
    stResult,       \* what it raised
    castTargets,    \* expectSilentCastPossible: the candidate target types, each as it relates to the source
    castSource,     \* the source expression
    castResult,     \* what it raised
    packedDest,     \* PackedData::setFrom: the destination value, its type and its packed content
    packedSource,   \* the value it was set from
    rawValue,       \* Value::createFromRawData: the value v whose packed bytes are handed in
    rawCopy,        \* the value it returned
    postModule,     \* SanityCheckPass::runPostResolution: the resolved namespace it is run on
    postCache,      \* what the declarations of the namespace have cached: struct layouts, operator types
    postOutcomes,   \* what each run raised, in order
    printValue,     \* Value::print: the scalar value given to the printer
    printOut,       \* DefaultPrinter: what it wrote
    exprPool,       \* AST::Expression: the expression nodes allocated so far, children by their index in the pool
    exprRewritten,  \* the child slots the resolver has rewritten, as <<parent, slot>>
    nsChain,        \* AST::Scope: the scopes from the one the search starts in outward to the root
    nsSearch,       \* Scope::NameSearch: its flags and the items it found
    listTarget,     \* expectSilentCastPossible: the target type
    listSource,     \* expectSilentCastPossible: the source expression
    listResult,     \* expectSilentCastPossible: completed or the error thrown
    aggDest,        \* Value::PackedData: the aggregate that setFrom (ArrayView<Value>) writes
    aggBefore,      \* the content of the aggregate before the call
    aggValues,      \* the values handed to setFrom
    aggOutcome,     \* "none" before the call, then "returned" or "assertionFailed"
    orderModule,    \* the module handed to runPostResolution: its kind, its children and the state of its graph
    orderDiagnostic, \* what runPostResolution raised
    stepDetector,   \* which detector runs: "CycleDetector" or "RecursiveGraphDetector"
    stepEdges,      \* for each node its sources, for each graph the graphs its processor instances name
    stepStack,      \* the VisitedStack, top entry first, each entry with the position of its loop
    stepRoot,       \* CycleDetector::check(): the position in nodes
    stepState       \* "building", "running", "returned" or "raised"

cycleVars == <<graph, cycleResult>>
recVars   == <<graphs, recRoot, recResult>>
typeVars  == <<typeDecls, typeRoot, typeResult>>
preVars   == <<prePc, preDepth, preModule, preResult, preAllOk, preNamespaces>>
incVars   == <<incTokens, incStack, incResult>>
delayVars == <<delayLength, delayValue, delayResult>>
eventVars == <<evProcessor, evResult>>
nameVars == <<nmScope, nmResult>>
dupVars == <<dupFunctions, dupResult>>
declVars == <<declVariable, declResult>>
structVars == <<stDecls, stRoot, stResult>>
castVars == <<castTargets, castSource, castResult>>
packedVars == <<packedDest, packedSource>>
rawVars == <<rawValue, rawCopy>>
postVars == <<postModule, postCache, postOutcomes>>
printVars == <<printValue, printOut>>
exprVars == <<exprPool, exprRewritten>>
searchVars == <<nsChain, nsSearch>>
listVars == <<listTarget, listSource, listResult>>
aggVars == <<aggDest, aggBefore, aggValues, aggOutcome>>
orderVars == <<orderModule, orderDiagnostic>>
stepsVars == <<stepDetector, stepEdges, stepStack, stepRoot, stepState>>

vars == <<graph, cycleResult, graphs, recRoot, recResult,
         typeDecls, typeRoot, typeResult,
         prePc, preDepth, preModule, preResult, preAllOk, preNamespaces,
         incTokens, incStack, incResult,
         delayLength, delayValue, delayResult,
         evProcessor, evResult,
         nmScope, nmResult,
         dupFunctions, dupResult,
         declVariable, declResult,
         stDecls, stRoot, stResult,
         castTargets, castSource, castResult,
         packedDest, packedSource,
         rawValue, rawCopy,
         postModule, postCache, postOutcomes,
         printValue, printOut,
         exprPool, exprRewritten,
         nsChain, nsSearch,
         listTarget, listSource, listResult,
         aggDest, aggBefore, aggValues, aggOutcome,
         orderModule, orderDiagnostic,
         stepDetector, stepEdges, stepStack, stepRoot, stepState>>

\* A pass that has not run has raised nothing; a pass that returned is "ok".
NoResult == [kind |-> "none", name |-> "", other |-> "", stack |-> <<>>]
Ok       == [kind |-> "ok", name |-> "", other |-> "", stack |-> <<>>]

NoCycleResult == [kind |-> "none", name |-> "", trace |-> <<>>, text |-> ""]
CycleOk       == [kind |-> "ok", name |-> "", trace |-> <<>>, text |-> ""]

GraphNames == {"G", "H"}

\* the state of the components a specification does not run
IdleCycle == graph = [insts |-> <<>>, conns |-> <<>>] /\ cycleResult = NoCycleResult
IdleRec   == graphs = [g \in GraphNames |-> <<>>] /\ recRoot = "" /\ recResult = NoResult
IdleType  == typeDecls = <<>> /\ typeRoot = "" /\ typeResult = NoResult
NoModule  == [type |-> "none", endpoints |-> <<>>, functions |-> <<>>]
IdlePre   ==
    /\ prePc = "idle" /\ preDepth = 0 /\ preModule = NoModule
    /\ preResult = NoResult /\ preAllOk = TRUE /\ preNamespaces = 0
IdleInc   == incTokens = <<>> /\ incStack = <<>> /\ incResult = NoResult
NoValue   == [type |-> "none", v |-> 0, half |-> 0]
NoExpression ==
    [node |-> "none", isConstant |-> FALSE, initialValue |-> "null", value |-> NoValue]
NoDelayResult == [kind |-> "none", value |-> 0]
IdleDelay ==
    delayLength = NoExpression /\ delayValue = NoValue /\ delayResult = NoDelayResult
NoProcessor == [endpoints |-> <<>>, stateVariables |-> <<>>, functions |-> <<>>]
IdleEvent ==
    evProcessor = NoProcessor /\ evResult = NoResult
NoScope ==
    [kind |-> "none", endpoints |-> <<>>, variables |-> <<>>, structures |-> <<>>,
     usings |-> <<>>, subModules |-> <<>>, functions |-> <<>>]
IdleName ==
    nmScope = NoScope /\ nmResult = NoResult
IdleDup ==
    dupFunctions = <<>> /\ dupResult = NoResult
NoDeclaration ==
    [hasDeclaredType |-> FALSE, readable |-> FALSE,
     type |-> [kind |-> "none", size |-> 0, of |-> <<>>]]
IdleDecl ==
    declVariable = NoDeclaration /\ declResult = NoResult
IdleStruct ==
    stDecls = <<>> /\ stRoot = "" /\ stResult = NoResult
NoSource == [isOutputEndpoint |-> FALSE, given |-> FALSE]
IdleCast ==
    castTargets = <<>> /\ castSource = NoSource /\ castResult = NoResult
NoPackedData == [type |-> [kind |-> "void", limit |-> 0, size |-> 0, element |-> ""], data |-> <<>>]
IdlePacked ==
    packedDest = NoPackedData /\ packedSource = NoPackedData
InvalidValue == [type |-> [kind |-> "invalid", size |-> 0, of |-> <<>>], allocatedData |-> <<>>]
IdleRaw ==
    rawValue = InvalidValue /\ rawCopy = InvalidValue
NoNamespace == [structs |-> <<>>, variables |-> <<>>, operators |-> <<>>]
NoCache == [structure |-> <<>>, resolvedOpTypes |-> <<>>]
IdlePost ==
    postModule = NoNamespace /\ postCache = NoCache /\ postOutcomes = <<>>
NoScalar == [type |-> "none", class |-> "finite", negative |-> FALSE, magnitude |-> 0]
IdlePrint ==
    printValue = NoScalar /\ printOut = ""
IdleExpr ==
    exprPool = <<>> /\ exprRewritten = {}
NoSearch == [done |-> FALSE, onlyFindLocalVariables |-> FALSE, stopAtFirstScopeWithResults |-> FALSE, itemsFound |-> <<>>]
IdleSearch ==
    nsChain = <<>> /\ nsSearch = NoSearch
IdleList ==
    listTarget = [kind |-> "void", size |-> 0, of |-> <<>>] /\ listSource = <<>> /\ listResult = NoResult
IdleAgg ==
    aggDest = NoPackedData /\ aggBefore = NoPackedData /\ aggValues = <<>> /\ aggOutcome = "none"
NoDiagnostic == [pass |-> "notRun", item |-> 0]
IdleOrder ==
    orderModule = <<>> /\ orderDiagnostic = NoDiagnostic
IdleSteps ==
    stepDetector = "" /\ stepEdges = <<>> /\ stepStack = <<>> /\ stepRoot = 0 /\ stepState = ""

Idle(c) ==
    /\ IF c = "cycle" THEN TRUE ELSE IdleCycle
    /\ IF c = "rec" THEN TRUE ELSE IdleRec
    /\ IF c = "type" THEN TRUE ELSE IdleType
    /\ IF c = "pre" THEN TRUE ELSE IdlePre
    /\ IF c = "inc" THEN TRUE ELSE IdleInc
    /\ IF c = "delay" THEN TRUE ELSE IdleDelay
    /\ IF c = "event" THEN TRUE ELSE IdleEvent
    /\ IF c = "name" THEN TRUE ELSE IdleName
    /\ IF c = "dup" THEN TRUE ELSE IdleDup
    /\ IF c = "decl" THEN TRUE ELSE IdleDecl
    /\ IF c = "struct" THEN TRUE ELSE IdleStruct
    /\ IF c = "cast" THEN TRUE ELSE IdleCast
    /\ IF c = "packed" THEN TRUE ELSE IdlePacked
    /\ IF c = "raw" THEN TRUE ELSE IdleRaw
    /\ IF c = "post" THEN TRUE ELSE IdlePost
    /\ IF c = "print" THEN TRUE ELSE IdlePrint
    /\ IF c = "expr" THEN TRUE ELSE IdleExpr
    /\ IF c = "search" THEN TRUE ELSE IdleSearch
    /\ IF c = "list" THEN TRUE ELSE IdleList
    /\ IF c = "agg" THEN TRUE ELSE IdleAgg
    /\ IF c = "order" THEN TRUE ELSE IdleOrder
    /\ IF c = "steps" THEN TRUE ELSE IdleSteps

Frame(c) ==
    /\ IF c = "cycle" THEN TRUE ELSE UNCHANGED <<graph, cycleResult>>
    /\ IF c = "rec" THEN TRUE ELSE UNCHANGED <<graphs, recRoot, recResult>>
    /\ IF c = "type" THEN TRUE ELSE UNCHANGED <<typeDecls, typeRoot, typeResult>>
    /\ IF c = "pre" THEN TRUE
       ELSE UNCHANGED <<prePc, preDepth, preModule, preResult, preAllOk, preNamespaces>>
    /\ IF c = "inc" THEN TRUE ELSE UNCHANGED <<incTokens, incStack, incResult>>
    /\ IF c = "delay" THEN TRUE ELSE UNCHANGED <<delayLength, delayValue, delayResult>>
    /\ IF c = "event" THEN TRUE ELSE UNCHANGED <<evProcessor, evResult>>
    /\ IF c = "name" THEN TRUE ELSE UNCHANGED <<nmScope, nmResult>>
    /\ IF c = "dup" THEN TRUE ELSE UNCHANGED <<dupFunctions, dupResult>>
    /\ IF c = "decl" THEN TRUE ELSE UNCHANGED <<declVariable, declResult>>
    /\ IF c = "struct" THEN TRUE ELSE UNCHANGED <<stDecls, stRoot, stResult>>
    /\ IF c = "cast" THEN TRUE ELSE UNCHANGED <<castTargets, castSource, castResult>>
    /\ IF c = "packed" THEN TRUE ELSE UNCHANGED <<packedDest, packedSource>>
    /\ IF c = "raw" THEN TRUE ELSE UNCHANGED <<rawValue, rawCopy>>
    /\ IF c = "post" THEN TRUE ELSE UNCHANGED <<postModule, postCache, postOutcomes>>
    /\ IF c = "print" THEN TRUE ELSE UNCHANGED <<printValue, printOut>>
    /\ IF c = "expr" THEN TRUE ELSE UNCHANGED <<exprPool, exprRewritten>>
    /\ IF c = "search" THEN TRUE ELSE UNCHANGED <<nsChain, nsSearch>>
    /\ IF c = "list" THEN TRUE ELSE UNCHANGED <<listTarget, listSource, listResult>>
    /\ IF c = "agg" THEN TRUE ELSE UNCHANGED <<aggDest, aggBefore, aggValues, aggOutcome>>
    /\ IF c = "order" THEN TRUE ELSE UNCHANGED <<orderModule, orderDiagnostic>>
    /\ IF c = "steps" THEN TRUE ELSE UNCHANGED <<stepDetector, stepEdges, stepStack, stepRoot, stepState>>

Range(s) == { s[i] : i \in DOMAIN s }

----------------------------------------------------------------------------
(* utilities/soul_StringUtilities.h *)

RECURSIVE joinFrom(_, _, _, _)
joinFrom(strings, separator, i, s) ==
    IF i > Len(strings) THEN s
    ELSE joinFrom(strings, separator, i + 1, s \o separator \o strings[i])

joinStrings(strings, separator) ==
    IF strings = <<>> THEN "" ELSE joinFrom(strings, separator, 2, strings[1])

----------------------------------------------------------------------------
(* AST::Graph::CycleDetector *)

MaxConnections == 3

\* names a connection end can carry: an instance name, or the empty path of
\* a connection to one of the graph's own endpoints
EmptyPath == "-"
InstanceNames == {"a", "b", "c"}

InstanceLists == { <<"a", "b", "c">>, <<"c", "a", "b">>, <<"a", "b">> }

\* delayLength: "null" when the connection has none
Connections ==
    [source : InstanceNames, dest : InstanceNames, delayLength : {"null", "expr"}]
    \cup { [source |-> EmptyPath, dest |-> "a", delayLength |-> "null"],
           [source |-> "a", dest |-> EmptyPath, delayLength |-> "null"],
           [source |-> EmptyPath, dest |-> "c", delayLength |-> "null"] }

\* findNode: "null" for an empty path, the node (its instance name) when an
\* instance has that name, otherwise the cannotFindProcessor error
findNode(insts, nodeName) ==
    IF nodeName = EmptyPath THEN [found |-> "null", node |-> ""]
    ELSE IF nodeName \in Range(insts) THEN [found |-> "node", node |-> nodeName]
    ELSE [found |-> "throw", node |-> nodeName]

\* The constructor: one node per instance, then the connections in order;
\* dst->sources.push_back (src) for each connection without delayLength
\* whose two ends are nodes.  Returns the error, or the nodes' sources.
RECURSIVE addConnections(_, _, _, _)
addConnections(insts, conns, i, sources) ==
    IF i > Len(conns) THEN [error |-> "", sources |-> sources]
    ELSE LET c == conns[i]
             src == findNode(insts, c.source)
             dst == findNode(insts, c.dest)
         IN  IF c.delayLength # "null" THEN addConnections(insts, conns, i + 1, sources)
             ELSE IF src.found = "throw" THEN [error |-> src.node, sources |-> sources]
             ELSE IF src.found = "null" THEN addConnections(insts, conns, i + 1, sources)
             ELSE IF dst.found = "throw" THEN [error |-> dst.node, sources |-> sources]
             ELSE IF dst.found = "null" THEN addConnections(insts, conns, i + 1, sources)
             ELSE addConnections(insts, conns, i + 1,
                       [sources EXCEPT ![dst.node] = Append(@, src.node)])

\* mutants of the constructor: one that drops a connection from an instance
\* to itself, one that does not look at delayLength
CycleDetector_SkipSelf(g) ==
    addConnections(g.insts, SelectSeq(g.conns, LAMBDA c : c.source # c.dest), 1,
                   [n \in Range(g.insts) |-> <<>>])

CycleDetector_IgnoreDelay(g) ==
    addConnections(g.insts,
                   [i \in DOMAIN g.conns |-> [g.conns[i] EXCEPT !.delayLength = "null"]],
                   1, [n \in Range(g.insts) |-> <<>>])

CycleDetector(g) ==
    addConnections(g.insts, g.conns, 1, [n \in Range(g.insts) |-> <<>>])

\* mutant: the trace listed from the bottom of the stack up
Reverse(s) == [i \in 1..Len(s) |-> s[Len(s) + 1 - i]]

throwCycleError_BottomUp(stack) ==
    LET nodesInCycle == Append(Reverse(stack), Reverse(stack)[1])
    IN  [kind |-> "feedbackInGraph", name |-> "", trace |-> nodesInCycle,
         text |-> joinStrings(nodesInCycle, " -> ")]

\* throwCycleError: the stack from its top entry down, then its top entry again.
\* A stack is the sequence of its nodes, top entry first.
throwCycleError(stack) ==
    LET nodesInCycle == Append(stack, stack[1])
    IN  [kind |-> "feedbackInGraph", name |-> "", trace |-> nodesInCycle,
         text |-> joinStrings(nodesInCycle, " -> ")]

\* check (node, stack, errorContext): raise when node is on the stack, else
\* push it and check each of its sources in order; the first error ends it.
RECURSIVE checkNode(_, _, _)
RECURSIVE checkSources(_, _, _, _)
checkNode(sources, node, stack) ==
    IF node \in Range(stack) THEN throwCycleError(stack)
    ELSE checkSources(sources, node, 1, <<node>> \o stack)

checkSources(sources, node, i, newStack) ==
    IF i > Len(sources[node]) THEN CycleOk
    ELSE LET r == checkNode(sources, sources[node][i], newStack)
         IN  IF r.kind # "ok" THEN r
             ELSE checkSources(sources, node, i + 1, newStack)

\* check(): every node in declaration order, each with an empty stack
RECURSIVE checkAll(_, _, _)
checkAll(insts, sources, i) ==
    IF i > Len(insts) THEN CycleOk
    ELSE LET r == checkNode(sources, insts[i], <<>>)
         IN  IF r.kind # "ok" THEN r ELSE checkAll(insts, sources, i + 1)

\* AST::Graph::CycleDetector (g).check(), as PostResolutionChecks::visit (Graph&) runs it
runCycleDetector(g) ==
    LET d == CycleDetector(g)
    IN  IF d.error # ""
        THEN [kind |-> "cannotFindProcessor", name |-> d.error, trace |-> <<>>, text |-> ""]
        ELSE checkAll(g.insts, d.sources, 1)

InitCycle ==
    /\ graph \in [insts : InstanceLists, conns : {<<>>}]
    /\ cycleResult = NoCycleResult
    /\ Idle("cycle")

\* the parser appends a connection to Graph::connections
AddConnection ==
    /\ cycleResult.kind = "none"
    /\ Len(graph.conns) < MaxConnections
    /\ \E c \in Connections : graph' = [graph EXCEPT !.conns = Append(@, c)]
    /\ UNCHANGED cycleResult
    /\ Frame("cycle")

CheckGraphForCycles ==
    /\ cycleResult.kind = "none"
    /\ cycleResult' = runCycleDetector(graph)
    /\ UNCHANGED graph
    /\ Frame("cycle")

NextCycle == AddConnection \/ CheckGraphForCycles

SpecCycle == InitCycle /\ [][NextCycle]_vars

(* The graph's zero-delay edges, stated on the connections themselves *)

ZeroDelayEdge(g, x, y) ==
    \E i \in DOMAIN g.conns :
        /\ g.conns[i].delayLength = "null"
        /\ g.conns[i].source = x
        /\ g.conns[i].dest = y

AnyEdge(g, x, y) ==
    \E i \in DOMAIN g.conns : g.conns[i].source = x /\ g.conns[i].dest = y

\* the instances reached from x over one or more edges
RECURSIVE ReachFrom(_, _, _, _)
ReachFrom(g, Edge(_, _, _), S, k) ==
    LET next == S \cup { y \in Range(g.insts) : \E x \in S : Edge(g, x, y) }
    IN  IF k = 0 THEN S ELSE ReachFrom(g, Edge, next, k - 1)

OnCycle(g, Edge(_, _, _), n) ==
    n \in ReachFrom(g, Edge, { y \in Range(g.insts) : Edge(g, n, y) }, Len(g.insts))

HasZeroDelayCycle(g) == \E n \in Range(g.insts) : OnCycle(g, ZeroDelayEdge, n)
HasAnyCycle(g)       == \E n \in Range(g.insts) : OnCycle(g, AnyEdge, n)

CycleChecked == cycleResult.kind \notin {"none", "cannotFindProcessor"}

\* C1: whenever check() has run on a graph whose instances contain a directed
\* cycle of connections without delayLength, it raised feedbackInGraph, and
\* the trace is a list of instance names whose first and last entries are
\* the same name.
C1_CycleIsReported ==
    (CycleChecked /\ HasZeroDelayCycle(graph)) =>
        /\ cycleResult.kind = "feedbackInGraph"
        /\ Len(cycleResult.trace) >= 2
        /\ Range(cycleResult.trace) \subseteq Range(graph.insts)
        /\ cycleResult.trace[1] = cycleResult.trace[Len(cycleResult.trace)]

C1_Witness ==
    /\ cycleResult.kind = "feedbackInGraph"
    /\ Len(graph.conns) = MaxConnections
    /\ \A i \in DOMAIN graph.conns : graph.conns[i].source # graph.conns[i].dest
    /\ \E i \in DOMAIN graph.conns : graph.conns[i].delayLength # "null"

ThreeCycleGraph ==
    [insts |-> <<"a", "b", "c">>,
     conns |-> << [source |-> "a", dest |-> "b", delayLength |-> "null"],
                  [source |-> "b", dest |-> "c", delayLength |-> "null"],
                  [source |-> "c", dest |-> "a", delayLength |-> "null"] >>]

\* C2 as amended: for instances a, b, c declared in that order with the
\* zero-delay connections a -> b, b -> c, c -> a, the cycle detector raises
\* feedbackInGraph with the trace text "b -> c -> a -> b".
C2_ThreeCycleTrace ==
    (graph = ThreeCycleGraph /\ cycleResult.kind # "none") =>
        /\ cycleResult.kind = "feedbackInGraph"
        /\ cycleResult.text = "b -> c -> a -> b"

\* C2 as stated: the trace text of that graph is exactly "a -> b -> c -> a".
C2_AsStated ==
    (graph = ThreeCycleGraph /\ cycleResult.kind # "none") =>
        /\ cycleResult.kind = "feedbackInGraph"
        /\ cycleResult.text = "a -> b -> c -> a"

C2_Witness == graph = ThreeCycleGraph /\ cycleResult.kind = "feedbackInGraph"

\* C3: a connection with a delayLength is no edge for the cycle detector: a
\* graph without a directed cycle of connections that all lack delayLength
\* (every cycle passes through a delayed connection, or there is no cycle at
\* all) never makes check() raise feedbackInGraph.
C3_DelayBreaksCycle ==
    (cycleResult.kind # "none" /\ ~HasZeroDelayCycle(graph)) =>
        cycleResult.kind # "feedbackInGraph"

C3_Witness ==
    /\ cycleResult.kind = "ok"
    /\ HasAnyCycle(graph)
    /\ ~HasZeroDelayCycle(graph)
    /\ \E i \in DOMAIN graph.conns : graph.conns[i].delayLength = "null"

\* C29: a feedbackInGraph trace describes a cycle of the graph: every name
\* in it is an instance on a cycle of connections without delayLength, and
\* each name is connected without delayLength to the name that follows it
C29_TraceIsRealCycle ==
    cycleResult.kind = "feedbackInGraph" =>
        /\ \A i \in DOMAIN cycleResult.trace :
               OnCycle(graph, ZeroDelayEdge, cycleResult.trace[i])
        /\ \A i \in 1..(Len(cycleResult.trace) - 1) :
               ZeroDelayEdge(graph, cycleResult.trace[i], cycleResult.trace[i + 1])

----------------------------------------------------------------------------
(* AST::Graph::RecursiveGraphDetector *)

MaxProcessorInstances == 3

\* a module a processor instance can name: one of the graphs, or a Processor
ProcessorName == "P"
ModuleNames == GraphNames \cup {ProcessorName}

\* ProcessorInstance::targetProcessor: a ProcessorRef to a module, or a
\* QualifiedIdentifier with the modules g.getMatchingSubModules (name->path)
\* finds for it
TargetProcessors ==
    [expr : {"ProcessorRef"}, found : { <<m>> : m \in ModuleNames }]
    \cup [expr : {"QualifiedIdentifier"},
          found : { <<>>, <<"G">>, <<"H">>, <<"G", "H">> }]

\* cast<Graph>: the module when it is a graph, else null
castGraph(m) == IF m \in GraphNames THEN m ELSE "null"

\* the graph `sub` the loop body computes for one processor instance
subGraph(target) ==
    IF target.expr = "ProcessorRef" THEN castGraph(target.found[1])
    ELSE IF target.expr = "QualifiedIdentifier" /\ Len(target.found) = 1
         THEN castGraph(target.found[1])
    ELSE "null"

recursiveTypes(g) == [kind |-> "recursiveTypes", name |-> g, other |-> "", stack |-> <<>>]

\* check (g, stack): raise when g is on the stack; else push it and return
\* the check of the first processor instance whose target is a graph
RECURSIVE RecursiveGraphDetector_check(_, _, _)
RECURSIVE checkInstances(_, _, _, _)
RecursiveGraphDetector_check(gs, g, stack) ==
    IF g \in Range(stack) THEN recursiveTypes(g)
    ELSE checkInstances(gs, g, 1, <<g>> \o stack)

checkInstances(gs, g, i, newStack) ==
    IF i > Len(gs[g]) THEN Ok
    ELSE LET sub == subGraph(gs[g][i])
         IN  IF sub # "null" THEN RecursiveGraphDetector_check(gs, sub, newStack)
             ELSE checkInstances(gs, g, i + 1, newStack)

NumProcessorInstances == Len(graphs["G"]) + Len(graphs["H"])

InitRec ==
    /\ graphs = [g \in GraphNames |-> <<>>]
    /\ recRoot = ""
    /\ recResult = NoResult
    /\ Idle("rec")

\* the parser appends a processor instance to Graph::processorInstances
AddProcessorInstance ==
    /\ recResult.kind = "none"
    /\ NumProcessorInstances < MaxProcessorInstances
    /\ \E g \in GraphNames, t \in TargetProcessors :
           graphs' = [graphs EXCEPT ![g] = Append(@, t)]
    /\ UNCHANGED <<recRoot, recResult>>
    /\ Frame("rec")

\* PostResolutionChecks::visit (Graph& g) calls RecursiveGraphDetector::check (g)
CheckGraphForRecursion ==
    /\ recResult.kind = "none"
    /\ \E g \in GraphNames :
           /\ recRoot' = g
           /\ recResult' = RecursiveGraphDetector_check(graphs, g, <<>>)
    /\ UNCHANGED graphs
    /\ Frame("rec")

NextRec == AddProcessorInstance \/ CheckGraphForRecursion

SpecRec == InitRec /\ [][NextRec]_vars

\* h is the resolved target of some processor instance of g
ContainsGraph(gs, g, h) ==
    \E i \in DOMAIN gs[g] :
        /\ gs[g][i].found # <<>>
        /\ gs[g][i].expr = "QualifiedIdentifier" => Len(gs[g][i].found) = 1
        /\ gs[g][i].found[1] = h

RECURSIVE ContainedFrom(_, _, _)
ContainedFrom(gs, S, k) ==
    LET next == S \cup { h \in GraphNames : \E g \in S : ContainsGraph(gs, g, h) }
    IN  IF k = 0 THEN S ELSE ContainedFrom(gs, next, k - 1)

\* g = G0, G1, ..., Gk = g with k >= 1
ContainsItself(gs, g) ==
    g \in ContainedFrom(gs, { h \in GraphNames : ContainsGraph(gs, g, h) },
                        Cardinality(GraphNames))

\* C4: RecursiveGraphDetector::check (g) ends with recursiveTypes whenever g
\* contains itself transitively through any of the processor instances of
\* the graphs on the chain.
C4_RecursionIsReported ==
    (recResult.kind # "none" /\ ContainsItself(graphs, recRoot)) =>
        recResult.kind = "recursiveTypes"

----------------------------------------------------------------------------
(* SanityCheckPass::RecursiveTypeDeclVisitStack and the visits that use it *)

MaxTypeMembers == 3

TypeNames == {"S", "A", "B"}

\* the type expression of a struct member or the target of a using: one of
\* the declarations, or a ConcreteType
MemberTypes == TypeNames \cup {"int"}

typeContainsItself(t, stack) ==
    [kind |-> "typeContainsItself", name |-> t, other |-> "", stack |-> stack]

typesReferToEachOther(t, back, stack) ==
    [kind |-> "typesReferToEachOther", name |-> t, other |-> back, stack |-> stack]

\* mutant: no case for the declaration at the top of the stack
push_NoSelfCase(stack, t) ==
    IF t \in Range(stack)
    THEN typesReferToEachOther(t, stack[Len(stack)], stack)
    ELSE [Ok EXCEPT !.stack = Append(stack, t)]

\* push (t): the error raised (with the stack it was raised on), or the new
\* stack.  stack.back() is the last entry.
push(stack, t) ==
    IF t \in Range(stack)
    THEN IF stack[Len(stack)] = t
         THEN typeContainsItself(t, stack)
         ELSE typesReferToEachOther(t, stack[Len(stack)], stack)
    ELSE [Ok EXCEPT !.stack = Append(stack, t)]

\* visit (StructDeclaration&) / visit (UsingDeclaration&): push, visit the
\* children, pop.  The children are the member types (the target type), and
\* a child that is a declaration is visited in its turn.
RECURSIVE visitTypeDeclaration(_, _, _)
RECURSIVE visitMemberTypes(_, _, _, _)
visitTypeDeclaration(decls, t, stack) ==
    LET pushed == push(stack, t)
    IN  IF pushed.kind # "ok" THEN pushed
        ELSE visitMemberTypes(decls, t, 1, pushed.stack)

visitMemberTypes(decls, t, i, stack) ==
    IF i > Len(decls[t].members) THEN Ok
    ELSE LET m == decls[t].members[i]
             r == IF m \in TypeNames THEN visitTypeDeclaration(decls, m, stack) ELSE Ok
         IN  IF r.kind # "ok" THEN r
             ELSE visitMemberTypes(decls, t, i + 1, stack)

RECURSIVE SumLen(_, _)
SumLen(f, S) ==
    IF S = {} THEN 0
    ELSE LET x == CHOOSE y \in S : TRUE
         IN  Len(f[x].members) + SumLen(f, S \ {x})

InitType ==
    /\ typeDecls \in [TypeNames -> [decl : {"StructDeclaration", "UsingDeclaration"},
                                    members : {<<>>}]]
    /\ typeRoot = ""
    /\ typeResult = NoResult
    /\ Idle("type")

\* StructDeclaration::addMember, or the target type of a using declaration
AddMember ==
    /\ typeResult.kind = "none"
    /\ SumLen(typeDecls, TypeNames) < MaxTypeMembers
    /\ \E t \in TypeNames, m \in MemberTypes :
           /\ typeDecls[t].decl = "UsingDeclaration" => typeDecls[t].members = <<>>
           /\ typeDecls' = [typeDecls EXCEPT ![t].members = Append(@, m)]
    /\ UNCHANGED <<typeRoot, typeResult>>
    /\ Frame("type")

\* PostResolutionChecks reaches a struct or using declaration of a module
VisitTypeDeclaration ==
    /\ typeResult.kind = "none"
    /\ \E t \in TypeNames :
           /\ typeRoot' = t
           /\ typeResult' = visitTypeDeclaration(typeDecls, t, <<>>)
    /\ UNCHANGED typeDecls
    /\ Frame("type")

NextType == AddMember \/ VisitTypeDeclaration

SpecType == InitType /\ [][NextType]_vars

\* the declarations reached from those of S over member types
RECURSIVE TypesFrom(_, _, _)
TypesFrom(decls, S, k) ==
    LET next == S \cup { m \in TypeNames : \E t \in S : m \in Range(decls[t].members) }
    IN  IF k = 0 THEN S ELSE TypesFrom(decls, next, k - 1)

MemberDecls(decls, t) == Range(decls[t].members) \cap TypeNames

\* some declaration reached from t (t included) contains itself transitively
ReachesRecursiveType(decls, t) ==
    \E u \in TypesFrom(decls, {t}, Cardinality(TypeNames)) :
        u \in TypesFrom(decls, MemberDecls(decls, u), Cardinality(TypeNames))

\* C5: push (t) raises typeContainsItself (t) when t is the top entry of the
\* stack, typesReferToEachOther (t, top entry) when t is on the stack but is
\* not its top entry, and pushes t otherwise, so that the visit of a
\* declaration raises exactly when a declaration it reaches contains itself;
\* struct S { S s; } gives typeContainsItself and A { B b; } B { A a; } gives
\* typesReferToEachOther.
C5_RecursiveTypeErrors ==
    typeResult.kind # "none" =>
        /\ typeResult.kind = "typeContainsItself" =>
              /\ typeResult.stack # <<>>
              /\ typeResult.stack[Len(typeResult.stack)] = typeResult.name
        /\ typeResult.kind = "typesReferToEachOther" =>
              /\ typeResult.name \in Range(typeResult.stack)
              /\ typeResult.stack[Len(typeResult.stack)] # typeResult.name
              /\ typeResult.other = typeResult.stack[Len(typeResult.stack)]
        /\ typeResult.kind = "ok" <=> ~ReachesRecursiveType(typeDecls, typeRoot)
        /\ (typeRoot = "S" /\ typeDecls["S"].members = <<"S">>) =>
              (typeResult.kind = "typeContainsItself" /\ typeResult.name = "S")
        /\ (typeRoot = "A" /\ typeDecls["A"].members = <<"B">>
                /\ typeDecls["B"].members = <<"A">>) =>
              /\ typeResult.kind = "typesReferToEachOther"
              /\ typeResult.name = "A"
              /\ typeResult.other = "B"

C5_Witness ==
    /\ typeResult.kind = "typesReferToEachOther"
    /\ typeRoot = "A"
    /\ typeDecls["A"] = [decl |-> "StructDeclaration", members |-> <<"B">>]
    /\ typeDecls["B"] = [decl |-> "StructDeclaration", members |-> <<"A">>]

----------------------------------------------------------------------------
(* SanityCheckPass::runPreResolution *)

MaxDeclarations == 3
MaxNamespaces == 2

SeqN(S, n) == [1..n -> S]
SeqUpTo(S, n) == UNION { SeqN(S, k) : k \in 0..n }

\* EndpointDeclaration: kind "null" when its details are null
Endpoints == [isInput : BOOLEAN, kind : {"stream", "value", "event", "null"}]

\* Function: "run" is heart::getRunFunctionName(), "init" the user init function
Functions == [name : {"run", "init", "f"}, isVoid : BOOLEAN, numParams : {0, 1}]

Processors ==
    UNION { [type : {"Processor"},
             endpoints : SeqN(Endpoints, k),
             functions : SeqUpTo(Functions, MaxDeclarations - k)] : k \in 0..MaxDeclarations }

Graphs == [type : {"Graph"}, endpoints : SeqUpTo(Endpoints, MaxDeclarations),
           functions : {<<>>}]

Namespaces == [type : {"Namespace"}, endpoints : {<<>>}, functions : SeqUpTo(Functions, 1)]

Modules == Processors \cup Graphs \cup Namespaces

Error(kind, name) == [kind |-> kind, name |-> name, other |-> "", stack |-> <<>>]

\* ModuleBase::countEndpoints
countEndpoints(m, countInputs) ==
    Cardinality({ i \in DOMAIN m.endpoints : m.endpoints[i].isInput = countInputs })

\* mutant: the inputs counted in place of the outputs
getNumOutputs_CountsInputs(m) == countEndpoints(m, TRUE)

getNumOutputs(m) == countEndpoints(m, FALSE)

isRunFunction(f) == f.name = "run"
isUserInitFunction(f) == f.name = "init"

\* the loop over processor->getFunctions(): the error of the first run or
\* init function that is not void or has parameters, else the number of run
\* functions
RECURSIVE checkRunAndInitFunctions(_, _, _)
checkRunAndInitFunctions(fs, i, numRunFunctions) ==
    IF i > Len(fs) THEN [Ok EXCEPT !.other = "", !.stack = <<numRunFunctions>>]
    ELSE LET f == fs[i]
         IN  IF isRunFunction(f) \/ isUserInitFunction(f)
             THEN IF ~f.isVoid THEN Error("functionMustBeVoid", f.name)
                  ELSE IF f.numParams # 0 THEN Error("functionHasParams", f.name)
                  ELSE checkRunAndInitFunctions(fs, i + 1,
                           IF isRunFunction(f) THEN numRunFunctions + 1 ELSE numRunFunctions)
             ELSE checkRunAndInitFunctions(fs, i + 1, numRunFunctions)

\* a non-event endpoint with details
needsRunFunction(m) ==
    \E i \in DOMAIN m.endpoints :
        m.endpoints[i].kind # "null" /\ m.endpoints[i].kind # "event"

\* mutant: no test for more than one run function
checkOverallStructureOfProcessor_OneRunAssumed(m) ==
    IF getNumOutputs(m) = 0 THEN Error("processorNeedsAnOutput", "")
    ELSE IF m.type # "Processor" THEN Ok
    ELSE LET fs == checkRunAndInitFunctions(m.functions, 1, 0)
         IN  IF fs.kind # "ok" THEN fs
             ELSE IF fs.stack[1] = 0 /\ needsRunFunction(m)
                  THEN Error("processorNeedsRunFunction", "")
             ELSE Ok

checkOverallStructureOfProcessor(m) ==
    IF getNumOutputs(m) = 0 THEN Error("processorNeedsAnOutput", "")
    ELSE IF m.type # "Processor" THEN Ok
    ELSE LET fs == checkRunAndInitFunctions(m.functions, 1, 0)
             numRunFunctions == fs.stack[1]
         IN  IF fs.kind # "ok" THEN fs
             ELSE IF numRunFunctions = 0 /\ needsRunFunction(m)
                  THEN Error("processorNeedsRunFunction", "")
             ELSE IF numRunFunctions > 1 THEN Error("multipleRunFunctions", "")
             ELSE Ok

\* checkOverallStructure, the module itself: only a ProcessorBase is checked
checkModule(m) ==
    IF m.type \in {"Processor", "Graph"} THEN checkOverallStructureOfProcessor(m) ELSE Ok

(* The rule of the run function, stated on the declarations *)

RunFunctions(m) == { i \in DOMAIN m.functions : m.functions[i].name = "run" }
OutputEndpoints(m) == { i \in DOMAIN m.endpoints : ~m.endpoints[i].isInput }
DeclaresNonEventEndpoint(m) ==
    \E i \in DOMAIN m.endpoints : m.endpoints[i].kind \in {"stream", "value"}

RunRuleHolds(m) ==
    m.type = "Processor" =>
        /\ Cardinality(RunFunctions(m)) <= 1
        /\ DeclaresNonEventEndpoint(m) => Cardinality(RunFunctions(m)) = 1

InitPre ==
    /\ prePc = "arrive"
    /\ preDepth = 0
    /\ preModule = NoNamespace
    /\ preResult = NoResult
    /\ preAllOk = TRUE
    /\ preNamespaces = 0
    /\ Idle("pre")

\* checkOverallStructure (module) is entered: for the module given to
\* runPreResolution, or for the next sub-module of the namespace it is in
ArriveAtModule ==
    /\ prePc = "arrive"
    /\ \E m \in Modules :
           /\ m.type = "Namespace" => preNamespaces < MaxNamespaces
           /\ preModule' = m
    /\ prePc' = "check"
    /\ UNCHANGED <<preDepth, preResult, preAllOk, preNamespaces>>
    /\ Frame("pre")

\* its first statement: a Processor or Graph is checked, and an error ends the pass
CheckModule ==
    /\ prePc = "check"
    /\ preResult' = checkModule(preModule)
    /\ preAllOk' = (preAllOk /\ RunRuleHolds(preModule))
    /\ prePc' = "checked"
    /\ UNCHANGED <<preDepth, preModule, preNamespaces>>
    /\ Frame("pre")

\* the loop over module.getSubModules(): only a Namespace has any
VisitSubModules ==
    /\ prePc = "checked"
    /\ preResult.kind = "ok"
    /\ preDepth' = IF preModule.type = "Namespace" THEN preDepth + 1 ELSE preDepth
    /\ preNamespaces' =
           IF preModule.type = "Namespace" THEN preNamespaces + 1 ELSE preNamespaces
    /\ prePc' = IF preDepth' = 0 THEN "done" ELSE "arrive"
    /\ preModule' = NoNamespace
    /\ UNCHANGED <<preResult, preAllOk>>
    /\ Frame("pre")

\* the loop over a namespace's sub-modules ends and the call returns
LeaveNamespace ==
    /\ prePc = "arrive"
    /\ preDepth >= 1
    /\ preDepth' = preDepth - 1
    /\ prePc' = IF preDepth' = 0 THEN "done" ELSE "arrive"
    /\ UNCHANGED <<preModule, preResult, preAllOk, preNamespaces>>
    /\ Frame("pre")

NextPre == ArriveAtModule \/ CheckModule \/ VisitSubModules \/ LeaveNamespace

SpecPre == InitPre /\ [][NextPre]_vars

\* every run function and user init function is void and has no parameters
RunAndInitWellFormed(m) ==
    \A i \in DOMAIN m.functions :
        m.functions[i].name \in {"run", "init"} =>
            m.functions[i].isVoid /\ m.functions[i].numParams = 0

RunFunctionsWellFormed(m) ==
    \A i \in RunFunctions(m) : m.functions[i].isVoid /\ m.functions[i].numParams = 0

\* C6 as amended: after runPreResolution completes without error every
\* Processor of the tree has at most one run function, and exactly one if it
\* declares a non-event endpoint; a Processor that checkOverallStructure
\* reaches, that has an output endpoint and whose run and user init functions
\* are all void and parameterless raises multipleRunFunctions when it has two
\* or more run functions, and processorNeedsRunFunction when it has none and
\* declares a non-event endpoint.
C6_RunFunctionRule ==
    /\ (prePc = "done" /\ preResult.kind = "ok") => preAllOk
    /\ (prePc = "checked" /\ preResult.kind = "ok") => RunRuleHolds(preModule)
    /\ (prePc = "checked" /\ preModule.type = "Processor"
           /\ OutputEndpoints(preModule) # {} /\ RunAndInitWellFormed(preModule)) =>
          /\ Cardinality(RunFunctions(preModule)) >= 2 =>
                preResult.kind = "multipleRunFunctions"
          /\ (RunFunctions(preModule) = {} /\ DeclaresNonEventEndpoint(preModule)) =>
                preResult.kind = "processorNeedsRunFunction"

\* C6 as stated: every Processor with two or more run functions, each void
\* and parameterless, raises multipleRunFunctions, and every Processor with
\* no run function and a non-event endpoint raises processorNeedsRunFunction.
C6_AsStated ==
    /\ (prePc = "done" /\ preResult.kind = "ok") => preAllOk
    /\ (prePc = "checked" /\ preModule.type = "Processor") =>
          /\ (Cardinality(RunFunctions(preModule)) >= 2
                 /\ RunFunctionsWellFormed(preModule)) =>
                preResult.kind = "multipleRunFunctions"
          /\ (RunFunctions(preModule) = {} /\ DeclaresNonEventEndpoint(preModule)) =>
                preResult.kind = "processorNeedsRunFunction"

C6_Witness ==
    /\ prePc = "checked"
    /\ preDepth >= 1
    /\ preResult.kind = "multipleRunFunctions"
    /\ preAllOk = FALSE

\* C7: runPreResolution raises processorNeedsAnOutput when the module it
\* reaches (the module it was given, or one nested at any depth inside
\* namespaces, no earlier module having raised) is a Processor or Graph
\* without output endpoint; a Namespace raises nothing and its sub-modules
\* are checked.
C7_ProcessorNeedsAnOutput ==
    prePc = "checked" =>
        /\ (preModule.type \in {"Processor", "Graph"} /\ OutputEndpoints(preModule) = {}) =>
              preResult.kind = "processorNeedsAnOutput"
        /\ preModule.type = "Namespace" => preResult.kind = "ok"
        /\ preResult.kind = "processorNeedsAnOutput" =>
              /\ preModule.type \in {"Processor", "Graph"}
              /\ OutputEndpoints(preModule) = {}

C7_Witness ==
    /\ prePc = "checked"
    /\ preDepth = MaxNamespaces
    /\ preModule.type = "Graph"
    /\ preModule.endpoints # <<>>
    /\ preResult.kind = "processorNeedsAnOutput"

----------------------------------------------------------------------------
(* SanityCheckPass::PreAndPostIncOperatorCheck *)

MaxVisits == 7

Variables == {"i", "j"}

\* what the visitor is called with, in traversal order
Visit(kind, variable) == [kind |-> kind, variable |-> variable]

\* VariableList modified, referenced of one visitObject (Statement&)
NoVariables == [modified |-> <<>>, referenced |-> <<>>]

contains(list, v) == \E k \in DOMAIN list : list[k] = v

\* throwIfVariableFound
throwIfVariableFound(list, v) ==
    IF contains(list, v) THEN Error("preIncDecCollision", "") ELSE NoResult

\* the lists the members variablesModified and variablesReferenced point to;
\* both null when no statement is being visited
Top(stack) == stack[Len(stack)]

SetTop(stack, lists) == [stack EXCEPT ![Len(stack)] = lists]

\* mutant: the variable read is not remembered
visitVariableRef_NotRemembered(stack, v) ==
    IF stack # <<>>
    THEN [result |-> throwIfVariableFound(Top(stack).modified, v), stack |-> stack]
    ELSE [result |-> NoResult, stack |-> stack]

\* visit (AST::VariableRef&)
visitVariableRef(stack, v) ==
    IF stack # <<>>
    THEN LET thrown == throwIfVariableFound(Top(stack).modified, v)
         IN  IF thrown.kind # "none" THEN [result |-> thrown, stack |-> stack]
             ELSE [result |-> NoResult,
                   stack |-> SetTop(stack, [Top(stack) EXCEPT
                                 !.referenced = Append(@, v)])]
    ELSE [result |-> NoResult, stack |-> stack]

\* visit (AST::PreOrPostIncOrDec&), the target a VariableRef
visitPreOrPostIncOrDec(stack, v) ==
    LET thrown == throwIfVariableFound(Top(stack).referenced, v)
    IN  IF thrown.kind # "none" THEN [result |-> thrown, stack |-> stack]
        ELSE [result |-> NoResult,
              stack |-> SetTop(stack, [modified |-> Append(Top(stack).modified, v),
                                       referenced |-> Append(Top(stack).referenced, v)])]

InitInc ==
    /\ incTokens = <<>>
    /\ incStack = <<>>
    /\ incResult = NoResult
    /\ Idle("inc")

Visiting == incResult.kind = "none" /\ Len(incTokens) < MaxVisits

\* visitObject (AST::Statement&) up to its call of super::visitObject
EnterStatement ==
    /\ Visiting
    /\ incStack' = Append(incStack, NoVariables)
    /\ incTokens' = Append(incTokens, Visit("Statement", ""))
    /\ UNCHANGED incResult
    /\ Frame("inc")

\* visitObject (AST::Statement&) after super::visitObject has returned
LeaveStatement ==
    /\ Visiting
    /\ incStack # <<>>
    /\ incStack' = SubSeq(incStack, 1, Len(incStack) - 1)
    /\ incTokens' = Append(incTokens, Visit("EndStatement", ""))
    /\ UNCHANGED incResult
    /\ Frame("inc")

VisitVariableRef ==
    /\ Visiting
    /\ \E v \in Variables :
           LET r == visitVariableRef(incStack, v)
           IN  /\ incStack' = r.stack
               /\ incResult' = r.result
               /\ incTokens' = Append(incTokens, Visit("VariableRef", v))
    /\ Frame("inc")

\* an increment or decrement is only met inside a statement (SOUL_ASSERT)
VisitPreOrPostIncOrDec ==
    /\ Visiting
    /\ incStack # <<>>
    /\ \E v \in Variables :
           LET r == visitPreOrPostIncOrDec(incStack, v)
           IN  /\ incStack' = r.stack
               /\ incResult' = r.result
               /\ incTokens' = Append(incTokens, Visit("PreOrPostIncOrDec", v))
    /\ Frame("inc")

NextInc == EnterStatement \/ LeaveStatement \/ VisitVariableRef \/ VisitPreOrPostIncOrDec

SpecInc == InitInc /\ [][NextInc]_vars

(* The rule, stated on what was visited *)

\* statements opened minus statements closed over positions a..b
RECURSIVE Balance(_, _, _)
Balance(tokens, a, b) ==
    IF a > b THEN 0
    ELSE Balance(tokens, a, b - 1)
           + (IF tokens[b].kind = "Statement" THEN 1
              ELSE IF tokens[b].kind = "EndStatement" THEN -1 ELSE 0)

\* the statement opened at b is still open at position p
Encloses(tokens, b, p) ==
    /\ b < p
    /\ tokens[b].kind = "Statement"
    /\ \A k \in (b + 1)..(p - 1) : Balance(tokens, b + 1, k) >= 0

\* the innermost statement around position p, 0 when there is none
StatementOf(tokens, p) ==
    LET open == { b \in 1..(p - 1) : Encloses(tokens, b, p) }
    IN  IF open = {} THEN 0 ELSE CHOOSE b \in open : \A c \in open : c <= b

IsOccurrence(t) == t.kind \in {"VariableRef", "PreOrPostIncOrDec"}

\* two occurrences of one variable in one statement, one of them the target
\* of an increment or decrement
Collide(tokens, p, q) ==
    /\ p < q
    /\ IsOccurrence(tokens[p]) /\ IsOccurrence(tokens[q])
    /\ tokens[p].variable = tokens[q].variable
    /\ "PreOrPostIncOrDec" \in {tokens[p].kind, tokens[q].kind}
    /\ StatementOf(tokens, p) # 0
    /\ StatementOf(tokens, p) = StatementOf(tokens, q)

HasCollision(tokens) == \E p, q \in DOMAIN tokens : Collide(tokens, p, q)

Begins(tokens, prefix) ==
    Len(tokens) >= Len(prefix) /\ SubSeq(tokens, 1, Len(prefix)) = prefix

\* C8: preIncDecCollision is raised exactly when a variable that is the
\* target of a pre/post increment or decrement occurs a second time in the
\* same statement (the innermost statement around each occurrence), in
\* either order of visit; i = i++ + i is flagged, i++; j = i + 1; and a lone
\* i++ are accepted.
C8_PreIncDecCollision ==
    /\ (incResult.kind = "preIncDecCollision") <=> HasCollision(incTokens)
    /\ incResult.kind \in {"none", "preIncDecCollision"}
    /\ Begins(incTokens, <<Visit("Statement", ""), Visit("VariableRef", "i"),
                           Visit("PreOrPostIncOrDec", "i")>>)
          => incResult.kind = "preIncDecCollision"
    /\ Begins(incTokens, <<Visit("Statement", ""), Visit("PreOrPostIncOrDec", "i"),
                           Visit("VariableRef", "i")>>)
          => incResult.kind = "preIncDecCollision"
    /\ incTokens = <<Visit("Statement", ""), Visit("PreOrPostIncOrDec", "i"),
                     Visit("EndStatement", ""), Visit("Statement", ""),
                     Visit("VariableRef", "j"), Visit("VariableRef", "i"),
                     Visit("EndStatement", "")>>
          => incResult.kind = "none"
    /\ incTokens = <<Visit("Statement", ""), Visit("PreOrPostIncOrDec", "i"),
                     Visit("EndStatement", "")>>
          => incResult.kind = "none"

C8_Witness ==
    /\ incResult.kind = "preIncDecCollision"
    /\ incTokens[Len(incTokens)].kind = "VariableRef"
    /\ \E k \in DOMAIN incTokens : incTokens[k].kind = "EndStatement"
    /\ Len(incStack) = 1

----------------------------------------------------------------------------
(* SanityCheckPass::checkDelayLineLength and PostResolutionChecks::visit (Connection&) *)

DelayMargin == 2

maxDelayLineLength == 1024 * 256

\* the numbers a constant may hold: around zero, around the ceiling, beyond it
Numbers ==
    ((0 - DelayMargin)..DelayMargin)
      \cup ((maxDelayLineLength - DelayMargin)..(maxDelayLineLength + DelayMargin))
      \cup {300000}

\* the largest magnitudes of an int32
WideNumbers == {2147483647, 0 - 2147483647}

\* Value: a float holds v + half/2
Values ==
    [type : {"int32", "int64"}, v : Numbers \cup WideNumbers, half : {0}]
      \cup [type : {"float32", "float64"}, v : Numbers, half : {0, 1}]
      \cup [type : {"bool"}, v : {0, 1}, half : {0}]

\* Type::isPrimitiveInteger
isPrimitiveInteger(type) == type \in {"int32", "int64"}

\* Value::getAsInt64
getAsInt64(val) ==
    IF val.type \in {"int32", "int64"} THEN val.v
    ELSE IF val.type = "bool" THEN (IF val.v # 0 THEN 1 ELSE 0)
    ELSE IF val.v < 0 /\ val.half = 1 THEN val.v + 1
    ELSE val.v

DelayError(kind) == [kind |-> kind, value |-> 0]

\* mutant: the ceiling itself is refused
checkDelayLineLength_CeilingRefused(val) ==
    IF ~isPrimitiveInteger(val.type) THEN DelayError("delayLineMustHaveIntLength")
    ELSE LET value == getAsInt64(val)
         IN  IF value < 1 THEN DelayError("delayLineTooShort")
             ELSE IF value >= maxDelayLineLength THEN DelayError("delayLineTooLong")
             ELSE [kind |-> "ok", value |-> value]

checkDelayLineLength(val) ==
    IF ~isPrimitiveInteger(val.type) THEN DelayError("delayLineMustHaveIntLength")
    ELSE LET value == getAsInt64(val)
         IN  IF value < 1 THEN DelayError("delayLineTooShort")
             ELSE IF value > maxDelayLineLength THEN DelayError("delayLineTooLong")
             ELSE [kind |-> "ok", value |-> value]

\* the expressions a connection's delayLength may be.  A VariableRef carries
\* its VariableDeclaration: isConstant, and the initial value, which is null,
\* a Constant, another resolved value ("Expression") or unresolved
Expression(node, isConstant, initialValue, value) ==
    [node |-> node, isConstant |-> isConstant, initialValue |-> initialValue, value |-> value]

NullExpression == Expression("null", FALSE, "null", NoValue)

Expressions ==
    { Expression("Constant", TRUE, "null", val) : val \in Values }
      \cup { Expression("VariableRef", c, "Constant", val) : c \in BOOLEAN, val \in Values }
      \cup { Expression("VariableRef", c, i, NoValue) :
                c \in BOOLEAN, i \in {"null", "Expression", "Unresolved"} }
      \cup { Expression(n, FALSE, "null", NoValue) :
                n \in {"OutputEndpointRef", "ProcessorRef", "QualifiedIdentifier",
                       "ConcreteType"} }

\* Expression::isResolved with kind == ExpressionKind::value
isResolvedAsValue(e) ==
    \/ e.node = "Constant"
    \/ e.node = "VariableRef" /\ e.initialValue # "Unresolved"

\* VariableRef::isCompileTimeConstant
isCompileTimeConstant(e) ==
    \/ e.node = "Constant"
    \/ e.node = "VariableRef" /\ e.isConstant /\ e.initialValue \in {"null", "Constant"}

\* Expression::getAsConstant: the value of the Constant, NoValue for null
getAsConstant(e) ==
    IF e.node = "Constant" THEN e.value
    ELSE IF e.node = "VariableRef" /\ isCompileTimeConstant(e) /\ e.initialValue = "Constant"
         THEN e.value
    ELSE NoValue

throwErrorIfNotReadableValue(e) ==
    IF ~isResolvedAsValue(e)
    THEN IF e.node = "OutputEndpointRef" THEN DelayError("cannotReadFromOutput")
         ELSE IF e.node = "ProcessorRef" THEN DelayError("cannotUseProcessorAsOutput")
         ELSE DelayError("expectedValue")
    ELSE NoDelayResult

\* visit (AST::Connection&): what it raises, "ok" when it returns
visitConnection(e) ==
    IF e # NullExpression
    THEN LET thrown == throwErrorIfNotReadableValue(e)
         IN  IF thrown.kind # "none" THEN thrown
             ELSE IF getAsConstant(e) # NoValue
                  THEN LET checked == checkDelayLineLength(getAsConstant(e))
                       IN  IF checked.kind = "ok" THEN [kind |-> "ok", value |-> 0]
                           ELSE checked
             ELSE [kind |-> "ok", value |-> 0]
    ELSE [kind |-> "ok", value |-> 0]

InitDelay ==
    /\ delayLength = NoExpression
    /\ delayValue = NoValue
    /\ delayResult = NoDelayResult
    /\ Idle("delay")

NothingThrown == delayResult.kind \in {"none", "ok"}

CheckDelayLineLength ==
    /\ NothingThrown
    /\ \E val \in Values :
           /\ delayValue' = val
           /\ delayResult' = checkDelayLineLength(val)
    /\ delayLength' = NoExpression
    /\ Frame("delay")

VisitConnection ==
    /\ NothingThrown
    /\ \E e \in Expressions \cup {NullExpression} :
           /\ delayLength' = e
           /\ delayValue' = IF e # NullExpression /\ isResolvedAsValue(e)
                            THEN getAsConstant(e) ELSE NoValue
           /\ delayResult' = visitConnection(e)
    /\ Frame("delay")

NextDelay == CheckDelayLineLength \/ VisitConnection

SpecDelay == InitDelay /\ [][NextDelay]_vars

Called == delayLength = NoExpression /\ delayValue # NoValue

IsInteger(val) == val.type \in {"int32", "int64"}

\* C9: checkDelayLineLength accepts v exactly when v is a primitive integer
\* with 1 <= v <= 262144, and returns it; an integer below 1 raises
\* delayLineTooShort, an integer above 262144 raises delayLineTooLong, and a
\* value that is not a primitive integer raises delayLineMustHaveIntLength
\* whatever its magnitude.
C9_DelayLineLength ==
    Called =>
        /\ delayResult.kind = "ok" <=>
              (IsInteger(delayValue) /\ 1 <= delayValue.v /\ delayValue.v <= 262144)
        /\ delayResult.kind = "ok" => delayResult.value = delayValue.v
        /\ (IsInteger(delayValue) /\ delayValue.v < 1) =>
              delayResult.kind = "delayLineTooShort"
        /\ (IsInteger(delayValue) /\ delayValue.v > 262144) =>
              delayResult.kind = "delayLineTooLong"
        /\ ~IsInteger(delayValue) => delayResult.kind = "delayLineMustHaveIntLength"
        /\ (IsInteger(delayValue) /\ delayValue.v = 0) =>
              delayResult.kind = "delayLineTooShort"
        /\ (IsInteger(delayValue) /\ delayValue.v = 300000) =>
              delayResult.kind = "delayLineTooLong"

C9_Witness ==
    /\ Called
    /\ delayValue = [type |-> "int32", v |-> 262144, half |-> 0]
    /\ delayResult = [kind |-> "ok", value |-> 262144]

Visited == delayLength # NoExpression

\* a delayLength that is a compile-time constant integer in [1, maxDelayLineLength]
ConstantInRange(e) ==
    /\ e.node = "Constant" \/ (e.node = "VariableRef" /\ e.isConstant)
    /\ e.initialValue = "Constant" \/ e.node = "Constant"
    /\ IsInteger(e.value)
    /\ 1 <= e.value.v /\ e.value.v <= 262144

\* a resolved value that is not a constant
ResolvedNonConstant(e) ==
    /\ e.node = "VariableRef"
    /\ e.initialValue # "Unresolved"
    /\ ~(e.isConstant /\ e.initialValue = "Constant")

\* C10: every connection that passes has no delayLength or a delayLength
\* that is a compile-time constant integer in [1, maxDelayLineLength], and a
\* connection whose delayLength is a resolved value that is not a constant is
\* rejected.
C10_DelayLengthIsConstantInRange ==
    Visited =>
        /\ delayResult.kind = "ok" =>
              (delayLength = NullExpression \/ ConstantInRange(delayLength))
        /\ ResolvedNonConstant(delayLength) => delayResult.kind # "ok"

----------------------------------------------------------------------------
(* SanityCheckPass::EventFunctionChecker *)

MaxEventDeclarations == 4
MaxEventEndpoints == 2

EventNames == {"ev", "x"}

PrimitiveTypes == {"int32", "float32", "bool"}

\* the data types an endpoint may list
DataTypeLists == {<<"int32", "float32">>, <<"bool">>}

\* EndpointDeclaration with its details: arraySize is null or not
EventEndpoints ==
    [name : EventNames, isInput : BOOLEAN, hasArraySize : BOOLEAN, dataTypes : DataTypeLists]

\* the type of a parameter: plain, or const and reference
ParameterTypes ==
    { [type |-> t, isConst |-> d, isReference |-> d] : t \in PrimitiveTypes, d \in BOOLEAN }

\* Function: a fresh one has no parameters
NewFunctions == [name : {"ev"}, eventFunction : BOOLEAN, parameters : {<<>>}]

\* Type::removeConstIfPresent().removeReferenceIfPresent()
removeConstAndReference(t) == [t EXCEPT !.isConst = FALSE, !.isReference = FALSE]

\* Type::isInteger
isInteger(t) == t.type \in {"int32", "int64"}

\* Type::isPresentIn
isPresentIn(t, types) ==
    \E k \in DOMAIN types : types[k] = t.type /\ ~t.isConst /\ ~t.isReference

\* soul::DuplicateNameChecker::check over a list of names: the first name
\* already seen raises nameInUse
RECURSIVE duplicateNameCheck(_, _, _)
duplicateNameCheck(names, i, seen) ==
    IF i > Len(names) THEN Ok
    ELSE IF names[i] \in seen THEN Error("nameInUse", names[i])
    ELSE duplicateNameCheck(names, i + 1, seen \cup {names[i]})

NamesOf(list) == [k \in DOMAIN list |-> list[k].name]

\* mutant: an output endpoint of the name counts as well
RECURSIVE checkEventFunction_AnyEndpoint(_, _, _, _)
checkEventFunction_AnyEndpoint(f, es, i, nameFound) ==
    IF i > Len(es)
    THEN IF ~nameFound THEN Error("noSuchInputEvent", f.name) ELSE Ok
    ELSE LET e == es[i]
         IN  IF e.name = f.name
             THEN IF ~e.hasArraySize /\ Len(f.parameters) = 1
                  THEN IF ~isPresentIn(removeConstAndReference(f.parameters[1]), e.dataTypes)
                       THEN Error("eventFunctionInvalidType", f.name)
                       ELSE checkEventFunction_AnyEndpoint(f, es, i + 1, TRUE)
                  ELSE IF e.hasArraySize /\ Len(f.parameters) = 2
                  THEN IF ~isInteger(removeConstAndReference(f.parameters[1]))
                       THEN Error("eventFunctionIndexInvalid", "")
                       ELSE IF ~isPresentIn(removeConstAndReference(f.parameters[2]),
                                            e.dataTypes)
                       THEN Error("eventFunctionInvalidType", f.name)
                       ELSE checkEventFunction_AnyEndpoint(f, es, i + 1, TRUE)
                  ELSE Error("eventFunctionInvalidArguments", "")
             ELSE checkEventFunction_AnyEndpoint(f, es, i + 1, nameFound)

\* the loop over p.getEndpoints() for one event function: the first error,
\* else whether the name was found
RECURSIVE checkEventFunction(_, _, _, _)
checkEventFunction(f, es, i, nameFound) ==
    IF i > Len(es)
    THEN IF ~nameFound THEN Error("noSuchInputEvent", f.name) ELSE Ok
    ELSE LET e == es[i]
         IN  IF e.isInput /\ e.name = f.name
             THEN IF ~e.hasArraySize /\ Len(f.parameters) = 1
                  THEN LET eventType == removeConstAndReference(f.parameters[1])
                       IN  IF ~isPresentIn(eventType, e.dataTypes)
                           THEN Error("eventFunctionInvalidType", f.name)
                           ELSE checkEventFunction(f, es, i + 1, TRUE)
                  ELSE IF e.hasArraySize /\ Len(f.parameters) = 2
                  THEN LET indexType == removeConstAndReference(f.parameters[1])
                           eventType == removeConstAndReference(f.parameters[2])
                       IN  IF ~isInteger(indexType)
                           THEN Error("eventFunctionIndexInvalid", "")
                           ELSE IF ~isPresentIn(eventType, e.dataTypes)
                           THEN Error("eventFunctionInvalidType", f.name)
                           ELSE checkEventFunction(f, es, i + 1, TRUE)
                  ELSE Error("eventFunctionInvalidArguments", "")
             ELSE checkEventFunction(f, es, i + 1, nameFound)

\* the loop over p.functions
RECURSIVE checkEventFunctions(_, _)
checkEventFunctions(p, i) ==
    IF i > Len(p.functions) THEN Ok
    ELSE IF p.functions[i].eventFunction
         THEN LET r == checkEventFunction(p.functions[i], p.endpoints, 1, FALSE)
              IN  IF r.kind # "ok" THEN r ELSE checkEventFunctions(p, i + 1)
         ELSE checkEventFunctions(p, i + 1)

\* EventFunctionChecker::visit (AST::Processor&); structures and usings empty
visitProcessorEvents(p) ==
    LET names == duplicateNameCheck(NamesOf(p.endpoints) \o p.stateVariables, 1, {})
    IN  IF names.kind # "ok" THEN names ELSE checkEventFunctions(p, 1)

NumEventDeclarations(p) ==
    Len(p.endpoints) + Len(p.stateVariables) + Len(p.functions)
      + SumLen([k \in DOMAIN p.functions |-> [members |-> p.functions[k].parameters]],
               DOMAIN p.functions)

InitEvent ==
    /\ evProcessor = NoProcessor
    /\ evResult = NoResult
    /\ Idle("event")

Parsing == evResult = NoResult /\ NumEventDeclarations(evProcessor) < MaxEventDeclarations

AddEndpoint ==
    /\ Parsing
    /\ Len(evProcessor.endpoints) < MaxEventEndpoints
    /\ evProcessor.stateVariables = <<>> /\ evProcessor.functions = <<>>
    /\ \E e \in EventEndpoints :
           evProcessor' = [evProcessor EXCEPT !.endpoints = Append(@, e)]
    /\ UNCHANGED evResult
    /\ Frame("event")

AddStateVariable ==
    /\ Parsing
    /\ evProcessor.functions = <<>>
    /\ \E n \in EventNames :
           evProcessor' = [evProcessor EXCEPT !.stateVariables = Append(@, n)]
    /\ UNCHANGED evResult
    /\ Frame("event")

AddFunction ==
    /\ Parsing
    /\ \E f \in NewFunctions :
           evProcessor' = [evProcessor EXCEPT !.functions = Append(@, f)]
    /\ UNCHANGED evResult
    /\ Frame("event")

AddParameter ==
    /\ Parsing
    /\ evProcessor.functions # <<>>
    /\ \E t \in ParameterTypes :
           evProcessor' = [evProcessor EXCEPT
               !.functions[Len(evProcessor.functions)].parameters = Append(@, t)]
    /\ UNCHANGED evResult
    /\ Frame("event")

RunEventFunctionChecker ==
    /\ evResult = NoResult
    /\ evResult' = visitProcessorEvents(evProcessor)
    /\ UNCHANGED evProcessor
    /\ Frame("event")

NextEvent ==
    AddEndpoint \/ AddStateVariable \/ AddFunction \/ AddParameter \/ RunEventFunctionChecker

SpecEvent == InitEvent /\ [][NextEvent]_vars

(* The rule of event functions, stated on the declarations *)

InputsNamed(p, n) ==
    { k \in DOMAIN p.endpoints : p.endpoints[k].isInput /\ p.endpoints[k].name = n }

Plain(t) == t.type

TypesOf(e) == { e.dataTypes[k] : k \in DOMAIN e.dataTypes }

\* what the rule says of event function f against input endpoint e
SignatureVerdict(f, e) ==
    IF ~e.hasArraySize
    THEN IF Len(f.parameters) # 1 THEN "eventFunctionInvalidArguments"
         ELSE IF Plain(f.parameters[1]) \notin TypesOf(e) THEN "eventFunctionInvalidType"
         ELSE "ok"
    ELSE IF Len(f.parameters) # 2 THEN "eventFunctionInvalidArguments"
         ELSE IF Plain(f.parameters[1]) # "int32" THEN "eventFunctionIndexInvalid"
         ELSE IF Plain(f.parameters[2]) \notin TypesOf(e) THEN "eventFunctionInvalidType"
         ELSE "ok"

EventVerdict(p, f) ==
    IF InputsNamed(p, f.name) = {} THEN "noSuchInputEvent"
    ELSE LET bad == { k \in InputsNamed(p, f.name) :
                          SignatureVerdict(f, p.endpoints[k]) # "ok" }
         IN  IF bad = {} THEN "ok"
             ELSE SignatureVerdict(f, p.endpoints[CHOOSE k \in bad : \A j \in bad : k <= j])

BadEventFunctions(p) ==
    { k \in DOMAIN p.functions :
          p.functions[k].eventFunction /\ EventVerdict(p, p.functions[k]) # "ok" }

NamesDistinct(p) ==
    LET names == NamesOf(p.endpoints) \o p.stateVariables
    IN  \A j, k \in DOMAIN names : j # k => names[j] # names[k]

EventChecked == evResult # NoResult

\* C11: when the names of the processor are distinct, EventFunctionChecker
\* passes exactly when every event function has an input endpoint of its
\* name and the signature that endpoint asks for, and otherwise raises what
\* the first offending event function deserves: noSuchInputEvent without
\* input endpoint of the name (an output endpoint does not count),
\* eventFunctionInvalidArguments for a wrong parameter count,
\* eventFunctionIndexInvalid for a non-integer index, and
\* eventFunctionInvalidType for a payload type (const and reference stripped)
\* that is not among the endpoint's data types; in event {int, float} ev
\* with void ev (bool) raises eventFunctionInvalidType.
C11_EventFunctionSignature ==
    (EventChecked /\ NamesDistinct(evProcessor)) =>
        LET bad == BadEventFunctions(evProcessor)
        IN  /\ (evResult.kind = "ok") <=> (bad = {})
            /\ bad # {} =>
                  evResult.kind =
                      EventVerdict(evProcessor,
                          evProcessor.functions[CHOOSE k \in bad : \A j \in bad : k <= j])
            /\ (/\ evProcessor.endpoints =
                      <<[name |-> "ev", isInput |-> TRUE, hasArraySize |-> FALSE,
                         dataTypes |-> <<"int32", "float32">>]>>
                /\ evProcessor.stateVariables = <<>>
                /\ evProcessor.functions =
                      <<[name |-> "ev", eventFunction |-> TRUE,
                         parameters |-> <<[type |-> "bool", isConst |-> FALSE,
                                           isReference |-> FALSE]>>]>>)
                  => evResult.kind = "eventFunctionInvalidType"

C11_Witness ==
    /\ EventChecked
    /\ evResult.kind = "ok"
    /\ \E k \in DOMAIN evProcessor.functions :
           /\ evProcessor.functions[k].eventFunction
           /\ Len(evProcessor.functions[k].parameters) = 2
           /\ evProcessor.functions[k].parameters[2].isConst

----------------------------------------------------------------------------
(* SanityCheckPass::DuplicateNameChecker *)

MaxScopeNames == 3

ScopeNames == {"x", "y"}

\* the scopes with a visit of their own.  variables holds the state
\* variables of a Processor, the constants of a Graph or Namespace, the
\* parameters of a Function, the variables declared in a Block, the members
\* of a StructDeclaration and the properties of an Annotation
ScopeKinds ==
    {"Processor", "Graph", "Namespace", "Function", "Block", "StructDeclaration",
     "Annotation"}

\* the categories of declaration each kind of scope holds
Categories(kind) ==
    IF kind = "Processor"
    THEN {"endpoints", "variables", "structures", "usings", "functions"}
    ELSE IF kind = "Graph" THEN {"endpoints", "variables"}
    ELSE IF kind = "Namespace"
    THEN {"structures", "usings", "subModules", "variables", "functions"}
    ELSE {"variables"}

\* soul::DuplicateNameChecker: the names seen so far, and what was raised
NewChecker == [seen |-> {}, result |-> Ok]

\* check over a list of names
RECURSIVE checkNames(_, _, _)
checkNames(checker, names, i) ==
    IF checker.result.kind # "ok" \/ i > Len(names) THEN checker
    ELSE IF names[i] \in checker.seen
         THEN [checker EXCEPT !.result = Error("nameInUse", names[i])]
         ELSE checkNames([checker EXCEPT !.seen = @ \cup {names[i]}], names, i + 1)

\* checkWithoutAdding over the functions, event functions left out when asked
RECURSIVE checkFunctionNames(_, _, _, _)
checkFunctionNames(checker, fs, i, skipEventFunctions) ==
    IF checker.result.kind # "ok" \/ i > Len(fs) THEN checker
    ELSE IF skipEventFunctions /\ fs[i].eventFunction
         THEN checkFunctionNames(checker, fs, i + 1, skipEventFunctions)
    ELSE IF fs[i].name \in checker.seen
         THEN [checker EXCEPT !.result = Error("nameInUse", fs[i].name)]
         ELSE checkFunctionNames(checker, fs, i + 1, skipEventFunctions)

\* visit (AST::Processor&): a Processor has no sub-modules
visitProcessorNames(p) ==
    checkFunctionNames(
        checkNames(checkNames(checkNames(checkNames(NewChecker,
            p.endpoints, 1), p.variables, 1), p.structures, 1), p.usings, 1),
        p.functions, 1, TRUE).result

\* visit (AST::Graph&)
visitGraphNames(g) == checkNames(NewChecker, g.endpoints, 1).result

\* visit (AST::Namespace&)
visitNamespaceNames(n) ==
    checkFunctionNames(
        checkNames(checkNames(checkNames(checkNames(NewChecker,
            n.structures, 1), n.usings, 1), n.subModules, 1), n.variables, 1),
        n.functions, 1, FALSE).result

\* visit of a Function, Block, StructDeclaration or Annotation
visitListNames(s) == checkNames(NewChecker, s.variables, 1).result

visitScopeNames(s) ==
    IF s.kind = "Processor" THEN visitProcessorNames(s)
    ELSE IF s.kind = "Graph" THEN visitGraphNames(s)
    ELSE IF s.kind = "Namespace" THEN visitNamespaceNames(s)
    ELSE visitListNames(s)

NumScopeNames(s) ==
    Len(s.endpoints) + Len(s.variables) + Len(s.structures) + Len(s.usings)
      + Len(s.subModules) + Len(s.functions)

InitName ==
    /\ nmScope \in { [NoScope EXCEPT !.kind = k] : k \in ScopeKinds }
    /\ nmResult = NoResult
    /\ Idle("name")

Declaring == nmResult = NoResult /\ NumScopeNames(nmScope) < MaxScopeNames

\* a declaration that is not a function is parsed into the scope
AddDeclaration ==
    /\ Declaring
    /\ \E n \in ScopeNames, c \in Categories(nmScope.kind) \ {"functions"} :
           nmScope' = [nmScope EXCEPT ![c] = Append(@, n)]
    /\ UNCHANGED nmResult
    /\ Frame("name")

\* a function is parsed into the scope; only a Processor has event functions
AddFunctionName ==
    /\ Declaring
    /\ "functions" \in Categories(nmScope.kind)
    /\ \E n \in ScopeNames, ev \in BOOLEAN :
           /\ ev => nmScope.kind = "Processor"
           /\ nmScope' = [nmScope EXCEPT
                  !.functions = Append(@, [name |-> n, eventFunction |-> ev])]
    /\ UNCHANGED nmResult
    /\ Frame("name")

VisitScope ==
    /\ nmResult = NoResult
    /\ nmResult' = visitScopeNames(nmScope)
    /\ UNCHANGED nmScope
    /\ Frame("name")

NextName == AddDeclaration \/ AddFunctionName \/ VisitScope

SpecName == InitName /\ [][NextName]_vars

\* the names a scope declares outside its functions
DeclaredNames(s) ==
    s.endpoints \o s.variables \o s.structures \o s.usings \o s.subModules

PairwiseDistinct(names) == \A j, k \in DOMAIN names : j # k => names[j] # names[k]

NoFunctionNamedAsDeclaration(s) ==
    \A k \in DOMAIN s.functions :
        ~s.functions[k].eventFunction =>
            \A j \in DOMAIN DeclaredNames(s) : DeclaredNames(s)[j] # s.functions[k].name

\* C12: after the duplicate-name checker has visited a scope without error,
\* its endpoints, variables or constants, structs, usings and sub-modules
\* (for a function its parameters, for a block its variables, for a struct
\* its members, for an annotation its properties) have pairwise distinct
\* names and no non-event function has the name of any of them.
C12_NamesAreUnique ==
    nmResult.kind = "ok" =>
        /\ PairwiseDistinct(DeclaredNames(nmScope))
        /\ NoFunctionNamedAsDeclaration(nmScope)

----------------------------------------------------------------------------
(* SanityCheckPass::checkForDuplicateFunctions *)

MaxFunctionDeclarations == 4

FunctionNames == {"f", "f_1"}

\* Function: a fresh one has no parameters; generic when it has wildcards
NewSignatures == [name : FunctionNames, isGeneric : BOOLEAN, parameters : {<<>>}]

\* std::to_string of a parameter count
to_string(n) == <<"0", "1", "2", "3", "4", "5", "6", "7", "8", "9">>[n + 1]

\* Type::getShortIdentifierDescription
getShortIdentifierDescription(t) ==
    (IF t.isConst THEN "const_" ELSE "")
      \o (IF t.type = "int32" THEN "i32" ELSE IF t.type = "float32" THEN "f32" ELSE "b")
      \o (IF t.isReference THEN "_ref" ELSE "")

\* Type::withConstAndRefFlags
withConstAndRefFlags(t, const, ref) == [t EXCEPT !.isConst = const, !.isReference = ref]

RECURSIVE signatureArgs(_, _, _)
signatureArgs(f, i, args) ==
    IF i > Len(f.parameters) THEN args
    ELSE signatureArgs(f, i + 1,
             args \o "_" \o getShortIdentifierDescription(
                                withConstAndRefFlags(f.parameters[i], FALSE, FALSE)))

\* mutant: the const and reference flags stay in the signature
RECURSIVE signatureArgs_FlagsKept(_, _, _)
signatureArgs_FlagsKept(f, i, args) ==
    IF i > Len(f.parameters) THEN args
    ELSE signatureArgs_FlagsKept(f, i + 1,
             args \o "_" \o getShortIdentifierDescription(f.parameters[i]))

getSignatureID_FlagsKept(f) ==
    f.name \o signatureArgs_FlagsKept(f, 1, "_" \o to_string(Len(f.parameters)))

\* AST::Function::getSignatureID
getSignatureID(f) == f.name \o signatureArgs(f, 1, "_" \o to_string(Len(f.parameters)))

RECURSIVE checkForDuplicateFunctionsFrom(_, _, _)
checkForDuplicateFunctionsFrom(functions, i, functionSigs) ==
    IF i > Len(functions) THEN Ok
    ELSE IF ~functions[i].isGeneric
         THEN LET newSig == getSignatureID(functions[i])
              IN  IF contains(functionSigs, newSig) THEN Error("duplicateFunction", "")
                  ELSE checkForDuplicateFunctionsFrom(functions, i + 1,
                           Append(functionSigs, newSig))
         ELSE checkForDuplicateFunctionsFrom(functions, i + 1, functionSigs)

checkForDuplicateFunctions(functions) == checkForDuplicateFunctionsFrom(functions, 1, <<>>)

NumFunctionDeclarations(fs) ==
    Len(fs) + SumLen([k \in DOMAIN fs |-> [members |-> fs[k].parameters]], DOMAIN fs)

InitDup ==
    /\ dupFunctions = <<>>
    /\ dupResult = NoResult
    /\ Idle("dup")

DeclaringFunctions ==
    dupResult = NoResult /\ NumFunctionDeclarations(dupFunctions) < MaxFunctionDeclarations

DeclareFunction ==
    /\ DeclaringFunctions
    /\ \E f \in NewSignatures : dupFunctions' = Append(dupFunctions, f)
    /\ UNCHANGED dupResult
    /\ Frame("dup")

DeclareParameter ==
    /\ DeclaringFunctions
    /\ dupFunctions # <<>>
    /\ \E t \in ParameterTypes :
           dupFunctions' = [dupFunctions EXCEPT
               ![Len(dupFunctions)].parameters = Append(@, t)]
    /\ UNCHANGED dupResult
    /\ Frame("dup")

CheckForDuplicateFunctions ==
    /\ dupResult = NoResult
    /\ dupResult' = checkForDuplicateFunctions(dupFunctions)
    /\ UNCHANGED dupFunctions
    /\ Frame("dup")

NextDup == DeclareFunction \/ DeclareParameter \/ CheckForDuplicateFunctions

SpecDup == InitDup /\ [][NextDup]_vars

\* same name, same number of parameters, same parameter types with const
\* and reference stripped
SameSignature(f, g) ==
    /\ f.name = g.name
    /\ Len(f.parameters) = Len(g.parameters)
    /\ \A k \in DOMAIN f.parameters : f.parameters[k].type = g.parameters[k].type

DifferOnlyInFlags(f, g) ==
    SameSignature(f, g) /\ f.parameters # g.parameters

\* C13: checkForDuplicateFunctions raises duplicateFunction exactly when
\* two non-generic functions of the list have the same name, the same number
\* of parameters and the same parameter types once const and reference are
\* stripped, and raises nothing else; generic functions are never compared.
C13_DuplicateFunction ==
    dupResult # NoResult =>
        /\ dupResult.kind \in {"ok", "duplicateFunction"}
        /\ (dupResult.kind = "duplicateFunction") <=>
              \E j, k \in DOMAIN dupFunctions :
                  /\ j < k
                  /\ ~dupFunctions[j].isGeneric /\ ~dupFunctions[k].isGeneric
                  /\ SameSignature(dupFunctions[j], dupFunctions[k])

C13_Witness ==
    /\ dupResult.kind = "duplicateFunction"
    /\ Len(dupFunctions) = 2
    /\ DifferOnlyInFlags(dupFunctions[1], dupFunctions[2])

----------------------------------------------------------------------------
(* PostResolutionChecks::visit (AST::VariableDeclaration&) *)

MaxTypeDepth == 3

\* the ceiling of a packed size, in bytes, at the scale of the array sizes below
maxPackedObjectSize == 64

ArraySizes == {2, 3, 20}

\* Type: a leaf, an array of one element type, or a struct of member types
LeafType(kind) == [kind |-> kind, size |-> 0, of |-> <<>>]

ArrayType(elementType, n) == [kind |-> "array", size |-> n, of |-> <<elementType>>]

StructType(members) == [kind |-> "struct", size |-> 0, of |-> members]

LeafTypes == { LeafType(k) : k \in {"int32", "float64", "void"} }

RECURSIVE TypeDepth(_)
TypeDepth(t) ==
    IF t.of = <<>> THEN 0
    ELSE 1 + TypeDepth(t.of[CHOOSE k \in DOMAIN t.of :
                                \A j \in DOMAIN t.of : TypeDepth(t.of[j]) <= TypeDepth(t.of[k])])

\* Type::getPackedSizeInBytes
RECURSIVE getPackedSizeInBytes(_)
RECURSIVE packedSizeOfMembers(_, _)
packedSizeOfMembers(t, k) ==
    IF k > Len(t.of) THEN 0
    ELSE getPackedSizeInBytes(t.of[k]) + packedSizeOfMembers(t, k + 1)

getPackedSizeInBytes(t) ==
    IF t.kind = "int32" THEN 4
    ELSE IF t.kind = "float64" THEN 8
    ELSE IF t.kind = "array" THEN t.size * getPackedSizeInBytes(t.of[1])
    ELSE IF t.kind = "struct" THEN packedSizeOfMembers(t, 1)
    ELSE 0

\* Type::isPackedSizeTooBig
isPackedSizeTooBig(t) == getPackedSizeInBytes(t) > maxPackedObjectSize

\* mutant: the members of a struct are not looked into
RECURSIVE throwErrorIfMultidimensionalArray_StructsSkipped(_)
throwErrorIfMultidimensionalArray_StructsSkipped(type) ==
    IF type.kind = "array"
    THEN IF type.of[1].kind = "array"
         THEN Error("notYetImplemented", "Multi-dimensional arrays")
         ELSE throwErrorIfMultidimensionalArray_StructsSkipped(type.of[1])
    ELSE Ok

\* the first member of a struct, from the k-th on, that raises
RECURSIVE throwErrorIfMultidimensionalArray(_)
RECURSIVE firstMemberError(_, _)
firstMemberError(type, k) ==
    IF k > Len(type.of) THEN Ok
    ELSE LET r == throwErrorIfMultidimensionalArray(type.of[k])
         IN  IF r.kind # "ok" THEN r ELSE firstMemberError(type, k + 1)

throwErrorIfMultidimensionalArray(type) ==
    LET inArray ==
            IF type.kind = "array"
            THEN IF type.of[1].kind = "array"
                 THEN Error("notYetImplemented", "Multi-dimensional arrays")
                 ELSE throwErrorIfMultidimensionalArray(type.of[1])
            ELSE Ok
    IN  IF inArray.kind # "ok" THEN inArray
        ELSE IF type.kind = "struct" THEN firstMemberError(type, 1)
        ELSE Ok

visitVariableDeclaration(v) ==
    IF ~v.readable
    THEN Error(IF v.hasDeclaredType THEN "expectedType" ELSE "expectedValue", "")
    ELSE IF v.type.kind = "void" THEN Error("variableCannotBeVoid", "")
    ELSE IF isPackedSizeTooBig(v.type) THEN Error("typeTooBig", "")
    ELSE throwErrorIfMultidimensionalArray(v.type)

InitDecl ==
    /\ declVariable \in [hasDeclaredType : BOOLEAN, readable : BOOLEAN, type : LeafTypes]
    /\ declResult = NoResult
    /\ Idle("decl")

Resolving == declResult = NoResult /\ TypeDepth(declVariable.type) < MaxTypeDepth

\* the type becomes the element type of an array
MakeArray ==
    /\ Resolving
    /\ declVariable.type.kind # "void"
    /\ \E n \in ArraySizes :
           declVariable' = [declVariable EXCEPT !.type = ArrayType(@, n)]
    /\ UNCHANGED declResult
    /\ Frame("decl")

\* the type becomes a member of a struct, alone or after an int32
MakeStruct ==
    /\ Resolving
    /\ declVariable.type.kind # "void"
    /\ \E before \in {<<>>, <<LeafType("int32")>>} :
           declVariable' = [declVariable EXCEPT !.type = StructType(before \o <<@>>)]
    /\ UNCHANGED declResult
    /\ Frame("decl")

VisitVariableDeclaration ==
    /\ declResult = NoResult
    /\ declResult' = visitVariableDeclaration(declVariable)
    /\ UNCHANGED declVariable
    /\ Frame("decl")

NextDecl == MakeArray \/ MakeStruct \/ VisitVariableDeclaration

SpecDecl == InitDecl /\ [][NextDecl]_vars

\* an array whose element type is an array, anywhere in the type
RECURSIVE HasArrayOfArrays(_)
HasArrayOfArrays(t) ==
    \/ t.kind = "array" /\ t.of[1].kind = "array"
    \/ \E k \in DOMAIN t.of : HasArrayOfArrays(t.of[k])

IntArray2x3 == ArrayType(ArrayType(LeafType("int32"), 3), 2)

\* C14: a readable variable declaration passes exactly when its type is not
\* void, its packed size is within the ceiling and no array in it, directly
\* or inside struct members at any depth, has an array as element type; the
\* errors are variableCannotBeVoid, typeTooBig and notYetImplemented
\* ("Multi-dimensional arrays"), tested in that order; int[2][3] raises the
\* last.
C14_VariableDeclarationType ==
    (declResult # NoResult /\ declVariable.readable) =>
        LET t == declVariable.type
        IN  /\ declResult.kind = "ok" <=>
                  (/\ t.kind # "void"
                   /\ getPackedSizeInBytes(t) <= 64
                   /\ ~HasArrayOfArrays(t))
            /\ t.kind = "void" => declResult.kind = "variableCannotBeVoid"
            /\ (t.kind # "void" /\ getPackedSizeInBytes(t) > 64) =>
                  declResult.kind = "typeTooBig"
            /\ (t.kind # "void" /\ getPackedSizeInBytes(t) <= 64 /\ HasArrayOfArrays(t)) =>
                  declResult = Error("notYetImplemented", "Multi-dimensional arrays")
            /\ t = IntArray2x3 => declResult.kind = "notYetImplemented"

C14_Witness ==
    /\ declResult.kind = "notYetImplemented"
    /\ declVariable.type.kind = "struct"
    /\ Len(declVariable.type.of) = 2

----------------------------------------------------------------------------
(* PostResolutionChecks::visit (AST::StructDeclaration&) *)

MaxStructMembers == 3

StructNames == {"S", "A"}

\* AST::Constness of a member's type expression
Constnesses == {"definitelyConst", "notConst", "unknown"}

\* StructDeclaration::Member
StructMembers == [type : StructNames \cup {"int"}, constness : Constnesses]

\* mutant: a type of unknown constness is refused as well
memberConstCheck_UnknownRefused(members) ==
    IF \E k \in DOMAIN members : members[k].constness # "notConst"
    THEN Error("memberCannotBeConst", "") ELSE Ok

\* the loop over s.getMembers()
memberConstCheck(members) ==
    IF \E k \in DOMAIN members : members[k].constness = "definitelyConst"
    THEN Error("memberCannotBeConst", "") ELSE Ok

\* visit (AST::StructDeclaration&): push, visit the children (a member type
\* that is a struct declaration is visited in its turn), pop, then the
\* members' constness.  The stack after the pop goes into an ok result.
RECURSIVE visitStructDeclaration(_, _, _)
RECURSIVE visitStructMembers(_, _, _, _)
visitStructDeclaration(decls, s, stack) ==
    LET pushed == push(stack, s)
    IN  IF pushed.kind # "ok" THEN pushed
        ELSE LET children == visitStructMembers(decls, s, 1, pushed.stack)
                 popped == SubSeq(pushed.stack, 1, Len(pushed.stack) - 1)
             IN  IF children.kind # "ok" THEN children
                 ELSE [memberConstCheck(decls[s]) EXCEPT !.stack = popped]

visitStructMembers(decls, s, i, stack) ==
    IF i > Len(decls[s]) THEN Ok
    ELSE LET m == decls[s][i].type
             r == IF m \in StructNames THEN visitStructDeclaration(decls, m, stack) ELSE Ok
         IN  IF r.kind # "ok" THEN r
             ELSE visitStructMembers(decls, s, i + 1, stack)

InitStruct ==
    /\ stDecls = [s \in StructNames |-> <<>>]
    /\ stRoot = ""
    /\ stResult = NoResult
    /\ Idle("struct")

AddStructMember ==
    /\ stResult = NoResult
    /\ Len(stDecls["S"]) + Len(stDecls["A"]) < MaxStructMembers
    /\ \E s \in StructNames, m \in StructMembers :
           stDecls' = [stDecls EXCEPT ![s] = Append(@, m)]
    /\ UNCHANGED <<stRoot, stResult>>
    /\ Frame("struct")

VisitStructDeclaration ==
    /\ stResult = NoResult
    /\ \E s \in StructNames :
           /\ stRoot' = s
           /\ stResult' = visitStructDeclaration(stDecls, s, <<>>)
    /\ UNCHANGED stDecls
    /\ Frame("struct")

NextStruct == AddStructMember \/ VisitStructDeclaration

SpecStruct == InitStruct /\ [][NextStruct]_vars

HasConstMember(s) == \E k \in DOMAIN stDecls[s] : stDecls[s][k].constness = "definitelyConst"

\* the structs met from s through member types
RECURSIVE StructsFrom(_, _)
StructsFrom(seen, todo) ==
    IF todo = {} THEN seen
    ELSE LET s == CHOOSE x \in todo : TRUE
             next == { stDecls[s][k].type : k \in DOMAIN stDecls[s] } \cap StructNames
         IN  StructsFrom(seen \cup {s}, (todo \cup next) \ (seen \cup {s}))

\* s is met again from one of its own members
StructIsRecursive(s) ==
    \E k \in DOMAIN stDecls[s] :
        /\ stDecls[s][k].type \in StructNames
        /\ s \in StructsFrom({}, {stDecls[s][k].type})

RecursionCheckSucceeds(s) == \A t \in StructsFrom({}, {s}) : ~StructIsRecursive(t)

\* C15: visiting a struct declaration raises memberCannotBeConst when the
\* recursion check of the struct succeeds and a member's type expression is
\* definitely const (struct S { const int x; }); it raises nothing when no
\* recursion is met and neither the struct nor a struct among its member
\* types has a const member; when the recursion check fails its error is
\* raised and not memberCannotBeConst; the stack is empty again when the
\* member check has passed.
C15_MemberCannotBeConst ==
    stResult # NoResult =>
        /\ (RecursionCheckSucceeds(stRoot) /\ HasConstMember(stRoot)) =>
              stResult.kind = "memberCannotBeConst"
        /\ (RecursionCheckSucceeds(stRoot)
               /\ \A t \in StructsFrom({}, {stRoot}) : ~HasConstMember(t)) =>
              stResult = Ok
        /\ ~RecursionCheckSucceeds(stRoot) =>
              stResult.kind \in {"typeContainsItself", "typesReferToEachOther",
                                 "memberCannotBeConst"}
        /\ (StructIsRecursive(stRoot) /\ \A t \in StructNames \ {stRoot} : ~HasConstMember(t)) =>
              stResult.kind \in {"typeContainsItself", "typesReferToEachOther"}
        /\ (stRoot = "S" /\ stDecls["S"] = <<[type |-> "int", constness |-> "definitelyConst"]>>)
              => stResult.kind = "memberCannotBeConst"

C15_Witness ==
    /\ stResult.kind = "memberCannotBeConst"
    /\ stRoot = "S"
    /\ Len(stDecls["S"]) = 2
    /\ stDecls["S"][1].type = "A"
    /\ stDecls["S"][2].constness = "definitelyConst"
    /\ ~HasConstMember("A")

----------------------------------------------------------------------------
(* SanityCheckPass::expectSilentCastPossible over a list of target types *)

MaxTargetTypes == 4

\* a candidate target type, by what the type rules say of it and the source
\* type: isEqual under ignoreVectorSize1, TypeRules::canSilentlyCastTo
TargetTypes == [isEqual : BOOLEAN, silentCast : BOOLEAN]

\* Expression::canSilentlyCastTo
canSilentlyCastTo(source, type) == ~source.isOutputEndpoint /\ type.silentCast

\* mutant: an equal type is one more match, without the early return
RECURSIVE countMatches_EqualIsAMatch(_, _, _, _)
countMatches_EqualIsAMatch(targetTypes, source, i, matches) ==
    IF i > Len(targetTypes) THEN matches
    ELSE IF targetTypes[i].isEqual \/ canSilentlyCastTo(source, targetTypes[i])
         THEN countMatches_EqualIsAMatch(targetTypes, source, i + 1, matches + 1)
         ELSE countMatches_EqualIsAMatch(targetTypes, source, i + 1, matches)

\* the loop over targetTypes: -1 when it returns at an equal type, else the
\* number of matches
RECURSIVE countMatches(_, _, _, _)
countMatches(targetTypes, source, i, matches) ==
    IF i > Len(targetTypes) THEN matches
    ELSE IF targetTypes[i].isEqual THEN 0 - 1
    ELSE IF canSilentlyCastTo(source, targetTypes[i])
         THEN countMatches(targetTypes, source, i + 1, matches + 1)
         ELSE countMatches(targetTypes, source, i + 1, matches)

expectSilentCastPossible(targetTypes, source) ==
    LET matches == countMatches(targetTypes, source, 1, 0)
    IN  IF matches = 0 - 1 THEN Ok
        ELSE IF matches = 0 THEN Error("cannotImplicitlyCastType", "")
        ELSE IF matches > 1 THEN Error("ambiguousCastBetween", "")
        ELSE Ok

InitCast ==
    /\ castTargets = <<>>
    /\ castSource \in [isOutputEndpoint : BOOLEAN, given : {TRUE}]
    /\ castResult = NoResult
    /\ Idle("cast")

AddTargetType ==
    /\ castResult = NoResult
    /\ Len(castTargets) < MaxTargetTypes
    /\ \E t \in TargetTypes : castTargets' = Append(castTargets, t)
    /\ UNCHANGED <<castSource, castResult>>
    /\ Frame("cast")

ExpectSilentCastPossible ==
    /\ castResult = NoResult
    /\ castResult' = expectSilentCastPossible(castTargets, castSource)
    /\ UNCHANGED <<castTargets, castSource>>
    /\ Frame("cast")

NextCast == AddTargetType \/ ExpectSilentCastPossible

SpecCast == InitCast /\ [][NextCast]_vars

EqualCandidates == { k \in DOMAIN castTargets : castTargets[k].isEqual }

AcceptingCandidates ==
    { k \in DOMAIN castTargets :
          ~castSource.isOutputEndpoint /\ castTargets[k].silentCast }

Reordered(p) == [k \in DOMAIN castTargets |-> castTargets[p[k]]]

\* C16: with a candidate equal to the source type the call succeeds however
\* many candidates accept silently; without one it succeeds exactly when one
\* candidate accepts, raises ambiguousCastBetween when two or more accept and
\* cannotImplicitlyCastType when none does; every reordering of the
\* candidates gives the same result.
C16_SilentCastAmongCandidates ==
    castResult # NoResult =>
        /\ EqualCandidates # {} => castResult = Ok
        /\ EqualCandidates = {} =>
              /\ (castResult = Ok) <=> (Cardinality(AcceptingCandidates) = 1)
              /\ Cardinality(AcceptingCandidates) >= 2 =>
                    castResult.kind = "ambiguousCastBetween"
              /\ AcceptingCandidates = {} =>
                    castResult.kind = "cannotImplicitlyCastType"
        /\ \A p \in Permutations(DOMAIN castTargets) :
              expectSilentCastPossible(Reordered(p), castSource) = castResult

C16_Witness ==
    /\ castResult = Ok
    /\ Len(castTargets) >= 3
    /\ castTargets[Len(castTargets)].isEqual
    /\ Cardinality(AcceptingCandidates \ EqualCandidates) >= 2

----------------------------------------------------------------------------
(* Value::PackedData: setFrom and the coercions it applies *)

MaxBoundedIntLimit == 10
MaxVectorSize == 3
MaxMagnitude == 15

PrimitiveKinds == {"int32", "int64", "float32", "float64", "bool"}
IntegerKinds == {"int32", "int64"}
FloatKinds == {"float32", "float64"}
BoundedKinds == {"wrap", "clamp"}

PrimitiveType(k) == [kind |-> k, limit |-> 0, size |-> 0, element |-> ""]
BoundedIntType(k, n) == [kind |-> k, limit |-> n, size |-> 0, element |-> ""]
VectorType(k, n) == [kind |-> "vector", limit |-> 0, size |-> n, element |-> k]

\* a stored number, in sign and magnitude: an integer or a bool counts units,
\* a floating point number counts halves (so 3 is 1.5), and negative zero is
\* a floating point number of its own, whose sign bit is set
Number(negative, magnitude) == [negative |-> negative, magnitude |-> magnitude]
ZeroBytes == Number(FALSE, 0)
NegativeZero == Number(TRUE, 0)
fromInt(i) == IF i < 0 THEN Number(TRUE, 0 - i) ELSE Number(FALSE, i)
toInt(x) == IF x.negative THEN 0 - x.magnitude ELSE x.magnitude

isPrimitive(type) == type.kind \in PrimitiveKinds
isFloatingPoint(type) == type.kind \in FloatKinds
isBoundedInt(type) == type.kind \in BoundedKinds
isVector(type) == type.kind = "vector"
getElementType(type) == PrimitiveType(type.element)
getArrayOrVectorSize(type) == IF isVector(type) THEN type.size ELSE 1

\* PackedData::isZero: every byte is zero
isZero(p) == \A i \in 1..Len(p.data) : p.data[i] = ZeroBytes

\* PackedData::clear: memset of the whole content
clear(p) == [p EXCEPT !.data = [i \in 1..Len(p.data) |-> ZeroBytes]]

\* a zero-initialised value of a type
zeroInitialiser(type) ==
    [type |-> type, data |-> [i \in 1..getArrayOrVectorSize(type) |-> ZeroBytes]]

\* PackedData::getAsDouble, in halves
getAsDouble(p) ==
    IF isFloatingPoint(p.type) THEN p.data[1]
    ELSE IF p.type.kind = "bool"
         THEN (IF p.data[1].magnitude # 0 THEN Number(FALSE, 2) ELSE ZeroBytes)
         ELSE Number(p.data[1].negative, 2 * p.data[1].magnitude)

\* the cast of a double to an integer: the fraction is dropped
truncate(d) == IF d.negative THEN 0 - (d.magnitude \div 2) ELSE d.magnitude \div 2

\* PackedData::getAsInt64
PackedData_getAsInt64(p) ==
    IF p.type.kind \in IntegerKinds \/ isBoundedInt(p.type) THEN toInt(p.data[1])
    ELSE IF p.type.kind = "bool" THEN (IF p.data[1].magnitude # 0 THEN 1 ELSE 0)
    ELSE truncate(getAsDouble(p))

\* PackedData::getAsBool
getAsBool(p) ==
    IF p.type.kind = "bool" THEN p.data[1].magnitude # 0
    ELSE IF isFloatingPoint(p.type) THEN getAsDouble(p).magnitude # 0
    ELSE PackedData_getAsInt64(p) # 0

\* the % of the language: the remainder has the sign of the dividend
remainder(value, size) ==
    IF value < 0 THEN 0 - ((0 - value) % size) ELSE value % size

\* mutant: the negative remainder is stored as it is
wrapOrClampToLegalValue_RemainderKept(type, value) ==
    IF type.kind = "wrap" THEN remainder(value, type.limit)
    ELSE IF value < 0 THEN 0
    ELSE IF value >= type.limit THEN type.limit - 1 ELSE value

\* PackedData::wrapOrClampToLegalValue
wrapOrClampToLegalValue(type, value) ==
    IF type.kind = "wrap"
    THEN LET size == type.limit
             wrapped == remainder(value, size)
         IN  IF wrapped < 0 THEN wrapped + size ELSE wrapped
    ELSE LET size == type.limit
         IN  IF value < 0 THEN 0
             ELSE IF value >= size THEN size - 1 ELSE value

\* what setFrom stores in a primitive or a bounded int; the values of the
\* model lie within int32, where the narrowing casts keep the value
setAsFrom(type, other) ==
    IF type.kind \in IntegerKinds
    THEN fromInt(IF isFloatingPoint(other.type) THEN truncate(getAsDouble(other))
                                                  ELSE PackedData_getAsInt64(other))
    ELSE IF isFloatingPoint(type) THEN getAsDouble(other)
    ELSE IF type.kind = "bool" THEN Number(FALSE, IF getAsBool(other) THEN 1 ELSE 0)
    ELSE fromInt(wrapOrClampToLegalValue(type, PackedData_getAsInt64(other)))

\* mutant: the iterator stays on the first element
setElements_FirstOnly(p, elements) ==
    [p EXCEPT !.data = [i \in 1..Len(p.data) |-> IF i = 1 THEN elements[1] ELSE p.data[i]]]

\* the loop of an ArrayIterator over the destination
setElements(p, elements) ==
    [p EXCEPT !.data = [i \in 1..Len(p.data) |-> elements[i]]]

\* PackedData::setFrom (const PackedData&), for a primitive source
RECURSIVE setFrom(_, _)
setFrom(p, other) ==
    IF isZero(other) THEN clear(p)
    ELSE IF isPrimitive(p.type) \/ isBoundedInt(p.type)
         THEN [p EXCEPT !.data = <<setAsFrom(p.type, other)>>]
    ELSE setElements(p,
            [i \in 1..getArrayOrVectorSize(p.type) |->
                setFrom([type |-> getElementType(p.type), data |-> <<p.data[i]>>],
                        other).data[1]])

DestinationTypes ==
    {PrimitiveType(k) : k \in PrimitiveKinds}
    \cup {BoundedIntType(k, n) : k \in BoundedKinds, n \in 1..MaxBoundedIntLimit}
    \cup {VectorType(k, n) : k \in PrimitiveKinds, n \in 1..MaxVectorSize}

\* the values of a primitive type, up to MaxMagnitude
ValuesOf(k) ==
    IF k = "bool" THEN {Number(FALSE, 0), Number(FALSE, 1)}
    ELSE IF k \in IntegerKinds THEN {fromInt(i) : i \in (0 - MaxMagnitude)..MaxMagnitude}
    ELSE {Number(n, m) : n \in BOOLEAN, m \in 0..MaxMagnitude}

Sources ==
    UNION {{[type |-> PrimitiveType(k), data |-> <<x>>] : x \in ValuesOf(k)} : k \in PrimitiveKinds}

InitPacked ==
    /\ packedDest \in {zeroInitialiser(t) : t \in DestinationTypes}
    /\ packedSource = NoPackedData
    /\ Idle("packed")

SetFrom ==
    /\ packedSource = NoPackedData
    /\ \E other \in Sources :
          /\ packedDest' = setFrom(packedDest, other)
          /\ packedSource' = other
    /\ Frame("packed")

NextPacked == SetFrom

SpecPacked == InitPacked /\ [][NextPacked]_vars

WasSetFrom == packedSource # NoPackedData

\* the two readings of "mod": the remainder of the language, and the
\* remainder that is never negative
ModOfSpec == {"truncated", "floored"}
mod(reading, v, n) == IF reading = "truncated" THEN remainder(v, n) ELSE v % n
Max(a, b) == IF a >= b THEN a ELSE b
Min(a, b) == IF a <= b THEN a ELSE b

\* C17: an integer v set into a bounded int of limit N is stored as
\* ((v mod N) + N) mod N when the type wraps and as max(0, min(N - 1, v)) when
\* it clamps, and what is stored lies in [0, N)
C17_BoundedIntCoercion ==
    (WasSetFrom /\ isBoundedInt(packedDest.type) /\ packedSource.type.kind \in IntegerKinds) =>
        LET v == toInt(packedSource.data[1])
            N == packedDest.type.limit
            stored == toInt(packedDest.data[1])
        IN  /\ stored >= 0 /\ stored < N
            /\ packedDest.type.kind = "wrap" =>
                  \A reading \in ModOfSpec : stored = mod(reading, mod(reading, v, N) + N, N)
            /\ packedDest.type.kind = "clamp" => stored = Max(0, Min(N - 1, v))

\* -1 set into a wrapping bounded int of limit 10 is stored as 9
C17_Witness ==
    /\ WasSetFrom
    /\ packedDest.type = BoundedIntType("wrap", 10)
    /\ packedSource.type.kind \in IntegerKinds
    /\ toInt(packedSource.data[1]) = 0 - 1
    /\ toInt(packedDest.data[1]) = 9
\* the lanes of a vector
Lanes(p) == 1..getArrayOrVectorSize(p.type)

\* C18: a vector set from a scalar primitive s holds, in every lane, s
\* coerced to the element type as setFrom coerces s into a single element,
\* a zero s included
C18_ScalarBroadcast ==
    (WasSetFrom /\ isVector(packedDest.type)) =>
        LET single == setFrom(zeroInitialiser(getElementType(packedDest.type)), packedSource)
        IN  /\ Len(packedDest.data) = packedDest.type.size
            /\ \A lane \in Lanes(packedDest) : packedDest.data[lane] = single.data[1]
            /\ isZero(packedSource) => isZero(packedDest)

\* 2.5 set into a vector of three int32 leaves 2 in each lane
C18_Witness ==
    /\ WasSetFrom
    /\ packedDest.type = VectorType("int32", 3)
    /\ packedSource = [type |-> PrimitiveType("float32"), data |-> <<Number(FALSE, 5)>>]
    /\ \A lane \in Lanes(packedDest) : packedDest.data[lane] = fromInt(2)

----------------------------------------------------------------------------
(* Value::createFromRawData and Value::operator== *)

MaxByteWrites == 2

Bytes == {0, 1, 255}

\* the types of the values
RawTypes ==
    {LeafType("int32"), LeafType("float64"),
     ArrayType(LeafType("int32"), 2), ArrayType(LeafType("int32"), 3),
     StructType(<<LeafType("int32"), LeafType("float64")>>),
     StructType(<<ArrayType(LeafType("int32"), 2)>>)}

\* Type::isValid, Type::isIdentical
isValid(type) == type.kind # "invalid"
isIdentical(a, b) == a = b

\* memcpy of n bytes
memcpy(dest, source, n) == [i \in 1..Len(dest) |-> IF i <= n THEN source[i] ELSE dest[i]]

\* Value::Value (Type): the buffer is resized to the packed size, zero filled
newValue(type) ==
    [type |-> type, allocatedData |-> [i \in 1..getPackedSizeInBytes(type) |-> 0]]

getPackedDataSize(v) == Len(v.allocatedData)

\* mutant: the last byte is not copied
createFromRawData_OneByteShort(type, sourceData, dataSize) ==
    LET v == newValue(type)
    IN  IF dataSize # getPackedDataSize(v) THEN InvalidValue
        ELSE [v EXCEPT !.allocatedData = memcpy(v.allocatedData, sourceData, getPackedDataSize(v) - 1)]

\* Value::createFromRawData; InvalidValue stands for the failed assertion
createFromRawData(type, sourceData, dataSize) ==
    LET v == newValue(type)
    IN  IF dataSize # getPackedDataSize(v) THEN InvalidValue
        ELSE [v EXCEPT !.allocatedData = memcpy(v.allocatedData, sourceData, getPackedDataSize(v))]

\* PackedData::equals: memcmp over the size of the left value
equals(a, b) ==
    /\ isIdentical(a.type, b.type)
    /\ \A i \in 1..Len(a.allocatedData) : a.allocatedData[i] = b.allocatedData[i]

\* Value::operator==
operatorEquals(a, b) ==
    IF ~isValid(a.type) THEN ~isValid(b.type)
    ELSE isIdentical(a.type, b.type) /\ equals(a, b)

\* the bytes of v that are not zero
NumByteWrites == Cardinality({i \in DOMAIN rawValue.allocatedData : rawValue.allocatedData[i] # 0})

InitRaw ==
    /\ rawValue \in {newValue(t) : t \in RawTypes}
    /\ rawCopy = InvalidValue
    /\ Idle("raw")

\* v takes its content, byte by byte
SetByte ==
    /\ rawCopy = InvalidValue
    /\ NumByteWrites < MaxByteWrites
    /\ \E i \in DOMAIN rawValue.allocatedData, b \in Bytes \ {0} :
          /\ rawValue.allocatedData[i] = 0
          /\ rawValue' = [rawValue EXCEPT !.allocatedData[i] = b]
    /\ UNCHANGED rawCopy
    /\ Frame("raw")

CreateFromRawData ==
    /\ rawCopy = InvalidValue
    /\ rawCopy' = createFromRawData(rawValue.type, rawValue.allocatedData,
                                    getPackedDataSize(rawValue))
    /\ UNCHANGED rawValue
    /\ Frame("raw")

NextRaw == SetByte \/ CreateFromRawData

SpecRaw == InitRaw /\ [][NextRaw]_vars

\* the values the copy is compared with: v, and v with one byte changed or
\* with another type
Others ==
    {rawValue}
    \cup {[rawValue EXCEPT !.allocatedData[i] = b] : i \in DOMAIN rawValue.allocatedData, b \in Bytes}
    \cup {newValue(t) : t \in RawTypes}

\* C19: the value made from the type and the packed bytes of v equals v,
\* where two values are equal exactly when their types are identical and
\* their buffers hold the same bytes
C19_RawDataRoundTrip ==
    rawCopy # InvalidValue =>
        /\ operatorEquals(rawCopy, rawValue)
        /\ operatorEquals(rawValue, rawCopy)
        /\ \A w \in Others :
              operatorEquals(rawCopy, w) <=>
                  (rawCopy.type = w.type /\ rawCopy.allocatedData = w.allocatedData)

\* a struct of an int32 and a float64 whose last byte is set was copied
C19_Witness ==
    /\ rawCopy # InvalidValue
    /\ rawValue.type = StructType(<<LeafType("int32"), LeafType("float64")>>)
    /\ Len(rawValue.allocatedData) = 12
    /\ rawValue.allocatedData[12] = 255
    /\ rawCopy.allocatedData[12] = 255

----------------------------------------------------------------------------
(* SanityCheckPass::runPostResolution, run again on the same namespace *)

MaxAstNodes == 3

\* the namespace declares the structs S and A, constants, and unary operators
\* over a binary operator.  A member is of type int or of a struct; a
\* constant is of type int, void or a struct, or an array of one of these
MemberTypeNames == StructNames \cup {"int"}
ConstantArraySizes == {0, 10}
ConstantDeclarations ==
    [name : ScopeNames, base : {"int", "void", "S"}, arraySize : ConstantArraySizes]

\* the types TypeRules gives for a binary operator: of an arithmetic one, of a
\* comparison, and of operands it does not accept ("invalid" is Type())
BinaryOperatorTypes ==
    {[operandType |-> "int32", resultType |-> "int32"],
     [operandType |-> "int32", resultType |-> "bool"],
     [operandType |-> "invalid", resultType |-> "invalid"]}
UnaryOps == {"negate", "logicalNot"}
\* a UnaryOperator whose source is a BinaryOperator; types is what
\* BinaryOp::getTypes answers for the binary operator and its operands
UnaryOperators ==
    [operation : UnaryOps, types : BinaryOperatorTypes]

NullStructure == [built |-> FALSE, members |-> <<>>]
InvalidOpTypes == [operandType |-> "invalid", resultType |-> "invalid"]

\* the caches of a namespace on which nothing has run
FreshCache(m) ==
    [structure |-> [s \in StructNames |-> NullStructure],
     resolvedOpTypes |-> [k \in DOMAIN m.operators |-> InvalidOpTypes]]

\* StructDeclaration::getStruct, on the layouts cached so far
RECURSIVE getStruct(_, _, _)
RECURSIVE addMembers(_, _, _, _)
addMembers(structs, structure, s, i) ==
    IF i > Len(structs[s]) THEN structure
    ELSE LET m == structs[s][i].type
             resolved == IF m \in StructNames THEN getStruct(structs, structure, m)
                         ELSE structure
         IN  addMembers(structs, [resolved EXCEPT ![s].members = Append(@, m)], s, i + 1)

\* mutant: the members are added at every call
getStruct_MembersAddedAgain(structs, structure, s) ==
    addMembers(structs, [structure EXCEPT ![s].built = TRUE], s, 1)

getStruct(structs, structure, s) ==
    IF structure[s].built THEN structure
    ELSE addMembers(structs, [structure EXCEPT ![s] = [built |-> TRUE, members |-> <<>>]], s, 1)

\* the Type of a member or base type, reading a struct's members from its layout
RECURSIVE toType(_, _)
toType(structure, t) ==
    IF t = "int" THEN LeafType("int32")
    ELSE IF t = "void" THEN LeafType("void")
    ELSE StructType([k \in DOMAIN structure[t].members |->
                        toType(structure, structure[t].members[k])])

\* VariableDeclaration::getType for a declared type: resolveAsType builds the
\* layout of a struct, and an array size makes it an array
getTypeCache(structs, structure, v) ==
    IF v.base \in StructNames THEN getStruct(structs, structure, v.base) ELSE structure

getType(structure, v) ==
    IF v.arraySize = 0 THEN toType(structure, v.base)
    ELSE ArrayType(toType(structure, v.base), v.arraySize)

\* BinaryOperator::resolveOpTypes
resolveOpTypes(b, resolvedOpTypes) ==
    IF resolvedOpTypes.resultType = "invalid" THEN b.types ELSE resolvedOpTypes

\* UnaryOp::isTypeSuitable
isTypeSuitable(operation, type) ==
    IF operation = "negate" THEN type = "int32" ELSE type = "bool"

Raised(r) == [kind |-> r.kind, name |-> r.name]
Passed == Raised(Ok)

\* PostResolutionChecks::visit (StructDeclaration&) over the structs
RECURSIVE visitStructs(_, _)
visitStructs(structs, todo) ==
    IF todo = <<>> THEN Passed
    ELSE LET r == Raised(visitStructDeclaration(structs, Head(todo), <<>>))
         IN  IF r # Passed THEN r ELSE visitStructs(structs, Tail(todo))

\* PostResolutionChecks::visit (VariableDeclaration&) over the constants,
\* from the k-th on: the cache it leaves and what it raised
RECURSIVE visitVariables(_, _, _)
visitVariables(m, cache, k) ==
    IF k > Len(m.variables) THEN [cache |-> cache, raised |-> Passed]
    ELSE LET v == m.variables[k]
             child == IF v.base \in StructNames
                      THEN Raised(visitStructDeclaration(m.structs, v.base, <<>>))
                      ELSE Passed
             structure == getTypeCache(m.structs, cache.structure, v)
             cached == [cache EXCEPT !.structure = structure]
             r == Raised(visitVariableDeclaration(
                      [hasDeclaredType |-> TRUE, readable |-> TRUE, type |-> getType(structure, v)]))
         IN  IF child # Passed THEN [cache |-> cache, raised |-> child]
             ELSE IF r # Passed THEN [cache |-> cached, raised |-> r]
             ELSE visitVariables(m, cached, k + 1)

\* PostResolutionChecks::visit (UnaryOperator&) over the operators
RECURSIVE visitUnaryOperators(_, _, _)
visitUnaryOperators(m, cache, k) ==
    IF k > Len(m.operators) THEN [cache |-> cache, raised |-> Passed]
    ELSE LET u == m.operators[k]
             types == resolveOpTypes(u, cache.resolvedOpTypes[k])
             cached == [cache EXCEPT !.resolvedOpTypes[k] = types]
         IN  IF ~isTypeSuitable(u.operation, types.resultType)
             THEN [cache |-> cached, raised |-> Raised(Error("wrongTypeForUnary", ""))]
             ELSE visitUnaryOperators(m, cached, k + 1)

\* names in declaration order
NamesIn(variables) == [k \in DOMAIN variables |-> variables[k].name]

\* runDuplicateNameChecker on the namespace
runDuplicateNameChecker(m) ==
    Raised(visitNamespaceNames(
        [NoScope EXCEPT !.kind = "Namespace", !.structures = <<"S", "A">>,
                        !.variables = NamesIn(m.variables)]))

\* PostResolutionChecks().visitObject on the namespace: the structs, the
\* constants, then the expressions
postResolutionChecks(m, cache) ==
    LET structs == visitStructs(m.structs, <<"S", "A">>)
        variables == visitVariables(m, cache, 1)
    IN  IF structs # Passed THEN [cache |-> cache, raised |-> structs]
        ELSE IF variables.raised # Passed THEN variables
        ELSE visitUnaryOperators(m, variables.cache, 1)

\* runPostResolution: the namespace has no event function and no increment,
\* so the first and the last of the four checkers raise nothing
runPostResolution(m, cache) ==
    LET names == runDuplicateNameChecker(m)
    IN  IF names # Passed THEN [cache |-> cache, raised |-> names]
        ELSE postResolutionChecks(m, cache)

NumAstNodes(m) ==
    Len(m.structs["S"]) + Len(m.structs["A"]) + Len(m.variables) + Len(m.operators)

InitPost ==
    /\ postModule = [structs |-> [s \in StructNames |-> <<>>], variables |-> <<>>,
                     operators |-> <<>>]
    /\ postCache = FreshCache(postModule)
    /\ postOutcomes = <<>>
    /\ Idle("post")

ResolvingNamespace == postOutcomes = <<>> /\ NumAstNodes(postModule) < MaxAstNodes

DeclareMember ==
    /\ ResolvingNamespace
    /\ \E s \in StructNames, t \in MemberTypeNames :
          postModule' = [postModule EXCEPT
                            !.structs[s] = Append(@, [type |-> t, constness |-> "notConst"])]
    /\ UNCHANGED <<postCache, postOutcomes>>
    /\ Frame("post")

DeclareConstant ==
    /\ ResolvingNamespace
    /\ \E v \in ConstantDeclarations :
          postModule' = [postModule EXCEPT !.variables = Append(@, v)]
    /\ UNCHANGED <<postCache, postOutcomes>>
    /\ Frame("post")

DeclareOperator ==
    /\ ResolvingNamespace
    /\ \E u \in UnaryOperators :
          /\ postModule' = [postModule EXCEPT !.operators = Append(@, u)]
          /\ postCache' = FreshCache(postModule')
    /\ UNCHANGED postOutcomes
    /\ Frame("post")

\* one run, and a second one after it
RunPostResolution ==
    /\ Len(postOutcomes) < 2
    /\ LET run == runPostResolution(postModule, postCache)
       IN  /\ postCache' = run.cache
           /\ postOutcomes' = Append(postOutcomes, run.raised)
    /\ UNCHANGED postModule
    /\ Frame("post")

NextPost == DeclareMember \/ DeclareConstant \/ DeclareOperator \/ RunPostResolution

SpecPost == InitPost /\ [][NextPost]_vars

\* C20: the second of two runs on the same namespace raises what the first
\* raised, and nothing when the first raised nothing: the struct layouts and
\* the operator types that the first run cached change no check
C20_SecondRunSameOutcome ==
    Len(postOutcomes) = 2 => postOutcomes[2] = postOutcomes[1]

\* a second run passed on a namespace whose first run built the layout of S
\* and cached the types of an operator
C20_Witness ==
    /\ Len(postOutcomes) = 2
    /\ postOutcomes[2] = Passed
    /\ postCache.structure["S"].built
    /\ postCache.structure["S"].members # <<>>
    /\ \E k \in DOMAIN postCache.resolvedOpTypes : postCache.resolvedOpTypes[k].resultType # "invalid"

\* a second run raised typeTooBig after the first had built the layout
C20_WitnessRaised ==
    /\ Len(postOutcomes) = 2
    /\ postOutcomes[2].kind = "typeTooBig"
    /\ postCache.structure["S"].built

----------------------------------------------------------------------------
(* ValuePrinter: how a scalar value is written *)

MaxPrintedMagnitude == 25

\* a scalar: a bool is 0 or 1, an integer counts units, a floating point
\* number is finite (counting halves, so 3 is 1.5, with negative zero as a
\* value of its own), a NaN, or an infinity
Scalar(type, class, negative, magnitude) ==
    [type |-> type, class |-> class, negative |-> negative, magnitude |-> magnitude]

PrintedScalars ==
    {Scalar("bool", "finite", FALSE, m) : m \in {0, 1}}
    \cup {Scalar(t, "finite", m < 0, IF m < 0 THEN 0 - m ELSE m) :
               t \in {"int32", "int64"}, m \in (0 - MaxPrintedMagnitude)..MaxPrintedMagnitude}
    \cup {Scalar(t, "finite", n, m) : t \in {"float32", "float64"}, n \in BOOLEAN,
                                      m \in 0..MaxPrintedMagnitude}
    \cup {Scalar(t, c, n, 0) : t \in {"float32", "float64"}, c \in {"inf"}, n \in BOOLEAN}
    \cup {Scalar(t, "nan", FALSE, 0) : t \in {"float32", "float64"}}

\* the decimal digits of a natural number
RECURSIVE digits(_)
digits(n) == IF n < 10 THEN to_string(n) ELSE digits(n \div 10) \o to_string(n % 10)

\* std::to_string of a signed integer
std_to_string(v) == (IF v.negative THEN "-" ELSE "") \o digits(v.magnitude)

\* floatToAccurateString, doubleToAccurateString: the shortest decimal that
\* reads back as the same number
accurateString(v) ==
    (IF v.negative THEN "-" ELSE "") \o digits(v.magnitude \div 2)
        \o (IF v.magnitude % 2 = 1 THEN ".5" ELSE ".0")

isnan(v) == v.class = "nan"
isinf(v) == v.class = "inf"
\* value == 0, which holds of negative zero as well
isZeroValue(v) == v.class = "finite" /\ v.magnitude = 0

printBool(b) == IF b THEN "true" ELSE "false"
printInt32(v) == std_to_string(v)
printInt64(v) == std_to_string(v) \o "L"

\* mutant: zero is written as the other finite numbers are
printFloat32_ZeroSuffixed(value) ==
    IF isnan(value) THEN "_nan32"
    ELSE IF isinf(value) THEN (IF ~value.negative THEN "_inf32" ELSE "_ninf32")
    ELSE accurateString(value) \o "f"

printFloat32(value) ==
    IF isZeroValue(value) THEN "0"
    ELSE IF isnan(value) THEN "_nan32"
    ELSE IF isinf(value) THEN (IF ~value.negative THEN "_inf32" ELSE "_ninf32")
    ELSE accurateString(value) \o "f"

printFloat64(value) ==
    IF isZeroValue(value) THEN "0"
    ELSE IF isnan(value) THEN "_nan64"
    ELSE IF isinf(value) THEN (IF ~value.negative THEN "_inf64" ELSE "_ninf64")
    ELSE accurateString(value)

\* PackedData::print of a primitive
print(p) ==
    IF p.type = "int32" THEN printInt32(p)
    ELSE IF p.type = "int64" THEN printInt64(p)
    ELSE IF p.type = "bool" THEN printBool(p.magnitude # 0)
    ELSE IF p.type = "float32" THEN printFloat32(p)
    ELSE printFloat64(p)

InitPrint ==
    /\ printValue = NoScalar
    /\ printOut = ""
    /\ Idle("print")

\* Value::getDescription: a printer of its own for each value
GetDescription ==
    /\ \E v \in PrintedScalars :
          /\ printValue' = v
          /\ printOut' = print(v)
    /\ Frame("print")

NextPrint == GetDescription

SpecPrint == InitPrint /\ [][NextPrint]_vars

Printed == printValue # NoScalar

\* what was written for the scalars other than a finite float32
OtherScalarsAsStated ==
    /\ printValue.type = "bool" =>
          printOut = (IF printValue.magnitude = 1 THEN "true" ELSE "false")
    /\ printValue.type = "int64" => printOut = std_to_string(printValue) \o "L"
    /\ (printValue.type = "float32" /\ isnan(printValue)) => printOut = "_nan32"
    /\ (printValue.type = "float32" /\ isinf(printValue)) =>
          printOut = (IF printValue.negative THEN "_ninf32" ELSE "_inf32")
    /\ (printValue.type = "float64" /\ isnan(printValue)) => printOut = "_nan64"
    /\ (printValue.type = "float64" /\ isinf(printValue)) =>
          printOut = (IF printValue.negative THEN "_ninf64" ELSE "_inf64")

FiniteFloat32 == printValue.type = "float32" /\ printValue.class = "finite"

\* C21: a bool is written true or false, an int64 as its decimal and L, the
\* NaNs and infinities as their tokens, and a finite float32 as its decimal
\* and f, except a zero of either sign, which is written 0 with no suffix
C21_ScalarRendering ==
    Printed =>
        /\ OtherScalarsAsStated
        /\ (FiniteFloat32 /\ printValue.magnitude # 0) =>
              printOut = accurateString(printValue) \o "f"
        /\ (FiniteFloat32 /\ printValue.magnitude = 0) => printOut = "0"

\* C21 as stated: every finite float32, zero included, is written with f
C21_AsStated ==
    Printed =>
        /\ OtherScalarsAsStated
        /\ FiniteFloat32 => printOut = accurateString(printValue) \o "f"

\* 1.5 as a float32 was written 1.5f
C21_Witness ==
    /\ printValue = Scalar("float32", "finite", FALSE, 3)
    /\ printOut = "1.5f"

\* a float32 zero was written 0
C21_WitnessZero ==
    /\ printValue = Scalar("float32", "finite", FALSE, 0)
    /\ printOut = "0"

----------------------------------------------------------------------------
(* AST::Expression: kind and isResolved of the expression classes *)

MaxPoolNodes == 4

ExprTypes == {"int", "array"}

\* a node: its class, the kind its constructor gives it, its operation (of a
\* TypeMetaFunction), its type (of a Constant or ConcreteType) and its
\* children, 0 for a null pointer
ExprNode(class, kind, operation, type, children) ==
    [class |-> class, kind |-> kind, operation |-> operation, type |-> type,
     children |-> children]

\* isPossiblyValue, isPossiblyType, isPossiblyEndpoint
isPossiblyValue(e) == e.kind \in {"value", "unknown"}
isPossiblyType(e) == e.kind \in {"type", "unknown"}
isPossiblyEndpoint(e) == e.kind \in {"endpoint", "unknown"}

\* TypeMetaFunction::operationReturnsAType
operationReturnsAType(op) == op = "elementType"

\* Expression::getResultType and resolveAsType, "invalid" for Type()
RECURSIVE getSourceType(_, _)
getSourceType(pool, id) ==
    LET e == pool[id]
    IN  IF e.class \in {"Constant", "ConcreteType"} THEN e.type
        ELSE IF e.class = "UnaryOperator" THEN getSourceType(pool, e.children[1])
        ELSE IF e.class = "BinaryOperator" THEN "int"
        ELSE IF e.class = "ArrayElementRef" \/ (e.class = "TypeMetaFunction" /\ e.operation = "elementType")
             THEN (IF getSourceType(pool, e.children[1]) = "array" THEN "int" ELSE "invalid")
        ELSE IF e.class = "TypeMetaFunction" THEN "bool"
        ELSE "invalid"

\* TypeMetaFunction::checkSourceType
checkSourceType(operation, sourceType) ==
    IF operation = "elementType" THEN sourceType = "array" ELSE TRUE

RECURSIVE isResolved(_, _)
\* ArrayElementRef::isResolved of a reference that is not a slice
isResolvedArrayElementRef(pool, e) ==
    /\ isResolved(pool, e.children[1]) /\ pool[e.children[1]].kind = "value"
    /\ isResolved(pool, e.children[2]) /\ pool[e.children[2]].kind = "value"

\* isResolved of each class
isResolved(pool, id) ==
    LET e == pool[id]
        resolvedAs(c, kind) == isResolved(pool, c) /\ pool[c].kind = kind
    IN  IF e.class \in {"Constant", "ConcreteType"} THEN TRUE
        ELSE IF e.class \in {"QualifiedIdentifier", "DotOperator"} THEN FALSE
        ELSE IF e.class \in {"UnaryOperator", "StaticAssertion"}
             THEN isResolved(pool, e.children[1])
        ELSE IF e.class = "BinaryOperator"
             THEN resolvedAs(e.children[1], "value") /\ resolvedAs(e.children[2], "value")
        ELSE IF e.class = "TypeMetaFunction"
             THEN IF resolvedAs(e.children[1], "value") \/ resolvedAs(e.children[1], "type")
                  THEN checkSourceType(e.operation, getSourceType(pool, e.children[1]))
                  ELSE FALSE
        ELSE IF e.class = "ArrayElementRef" THEN isResolvedArrayElementRef(pool, e)
        ELSE IF e.class = "WriteToEndpoint" THEN isResolved(pool, e.children[2])
        ELSE \A k \in DOMAIN e.children : isResolved(pool, e.children[k])

\* the nodes that are the child of no node yet
Parentless(pool) ==
    {c \in DOMAIN pool : \A p \in DOMAIN pool : \A k \in DOMAIN pool[p].children :
                             pool[p].children[k] # c}

\* the nodes a constructor can make over the children cs, with the
\* assertions of the constructors
Constructed(pool, cs) ==
    {ExprNode(c, k, "", t, <<>>) :
        c \in {"Constant"}, k \in {"value"}, t \in ExprTypes}
    \cup {ExprNode("ConcreteType", "type", "", t, <<>>) : t \in ExprTypes}
    \cup {ExprNode("QualifiedIdentifier", "unknown", "", "", <<>>)}
    \cup {ExprNode("CommaSeparatedList", "unknown", "", "", <<>>)}
    \cup {ExprNode("CommaSeparatedList", "unknown", "", "", <<a>>) : a \in cs}
    \cup {ExprNode("UnaryOperator", "value", "", "", <<a>>) : a \in cs}
    \cup {ExprNode("StaticAssertion", "unknown", "", "", <<a>>) :
             a \in {x \in cs : isPossiblyValue(pool[x])}}
    \cup {ExprNode("TypeMetaFunction",
                   IF operationReturnsAType(op) THEN "type" ELSE "value", op, "", <<a>>) :
             op \in {"elementType", "isArray"}, a \in {x \in cs : isPossiblyType(pool[x])}}
    \cup {ExprNode(c, "unknown", "", "", <<ab[1], ab[2]>>) :
             c \in {"DotOperator", "CommaSeparatedList"},
             ab \in {x \in cs \X cs : x[1] # x[2]}}
    \cup {ExprNode("WriteToEndpoint", "endpoint", "", "", <<ab[1], ab[2]>>) :
             ab \in {x \in cs \X cs : x[1] # x[2]}}
    \cup {ExprNode("BinaryOperator", "value", "", "", <<ab[1], ab[2]>>) :
             ab \in {x \in cs \X cs : /\ x[1] # x[2]
                                       /\ isPossiblyValue(pool[x[1]])
                                       /\ isPossiblyValue(pool[x[2]])}}
    \cup {ExprNode("ArrayElementRef", "value", "", "", <<abc[1], abc[2], abc[3]>>) :
             abc \in {x \in cs \X cs \X (cs \cup {0}) :
                         /\ x[1] # x[2] /\ x[3] \notin {x[1], x[2]}
                         /\ isPossiblyValue(pool[x[1]]) \/ isPossiblyEndpoint(pool[x[1]])}}

\* mutant: the resolver replaces any node
isRewritable_AnyNode(e) == e.class # ""

\* the forms the resolver rewrites into resolved nodes
isRewritable(e) == e.class \in {"QualifiedIdentifier", "DotOperator"}

InitExpr ==
    /\ exprPool = <<>>
    /\ exprRewritten = {}
    /\ Idle("expr")

\* the parser allocates a node over nodes that have no parent yet
Construct ==
    /\ Len(exprPool) < MaxPoolNodes
    /\ exprRewritten = {}
    /\ \E e \in Constructed(exprPool, Parentless(exprPool)) :
          exprPool' = Append(exprPool, e)
    /\ UNCHANGED exprRewritten
    /\ Frame("expr")

\* the resolver replaces a child that is of an unresolved form by a new node,
\* made over the children of the node it replaces
Rewrite ==
    /\ Len(exprPool) < MaxPoolNodes
    /\ \E p \in DOMAIN exprPool : \E slot \in DOMAIN exprPool[p].children :
          LET old == exprPool[p].children[slot]
          IN  /\ old # 0
              /\ isRewritable(exprPool[old])
              /\ \E e \in Constructed(exprPool, Range(exprPool[old].children)) :
                    /\ exprPool' = Append([exprPool EXCEPT ![p].children[slot] = Len(exprPool) + 1], e)
                    /\ exprRewritten' = exprRewritten \cup {<<p, slot>>}
    /\ Frame("expr")

NextExpr == Construct \/ Rewrite

SpecExpr == InitExpr /\ [][NextExpr]_vars

ResolvedWithKind(pool, id) == isResolved(pool, id) /\ pool[id].kind # "unknown"

C23_UnknownIsUnresolved ==
    \A id \in DOMAIN exprPool :
        exprPool[id].kind = "unknown" => ~isResolved(exprPool, id)

----------------------------------------------------------------------------
(* AST::Scope::performFullNameSearch for an unqualified name *)

MaxSearchScopes == 3
MaxSearchDeclarations == 3

SearchNames == {"x", "y"}
\* the name searched for
targetName == "x"

\* a scope of the chain: a Block holds statements, which are variable
\* declarations and one statement, "inner", that contains the next scope
\* inward (in the first Block: the statement the search is made from); a
\* Function holds parameters; a module holds variables and functions.  An
\* object is named by <<scope, position>>
SearchScope(kind, items) == [kind |-> kind, items |-> items]
SearchItem(category, name) == [category |-> category, name |-> name]
InnerStatement == SearchItem("inner", "")
NullStatement == <<0, 0>>

\* the position of the inner statement of a Block
InnerOf(scope) == CHOOSE i \in DOMAIN scope.items : scope.items[i].category = "inner"

\* NameSearch::addResult
addResult(itemsFound, o) == IF contains(itemsFound, o) THEN itemsFound ELSE Append(itemsFound, o)

\* NameSearch::addFirstWithName over the items of one category
addFirstWithName(itemsFound, chain, k, category, name) ==
    LET matching == {i \in DOMAIN chain[k].items :
                        chain[k].items[i] = SearchItem(category, name)}
    IN  IF matching = {} THEN itemsFound
        ELSE addResult(itemsFound, <<k, CHOOSE i \in matching : \A j \in matching : i <= j>>)

\* the loop over the functions of a module: every one of the name
RECURSIVE addFunctions(_, _, _, _)
addFunctions(itemsFound, chain, k, i) ==
    IF i > Len(chain[k].items) THEN itemsFound
    ELSE addFunctions(
            IF chain[k].items[i] = SearchItem("function", targetName)
            THEN addResult(itemsFound, <<k, i>>) ELSE itemsFound,
            chain, k, i + 1)

\* Block::performLocalNameSearch: the loop over the statements, which ends at
\* the statement to search up to
RECURSIVE lastMatch(_, _, _, _, _)
lastMatch(chain, k, i, statementToSearchUpTo, match) ==
    IF i > Len(chain[k].items) \/ <<k, i>> = statementToSearchUpTo THEN match
    ELSE lastMatch(chain, k, i + 1, statementToSearchUpTo,
                   IF chain[k].items[i] = SearchItem("variable", targetName)
                   THEN <<k, i>> ELSE match)

\* performLocalNameSearch of a Block, a Function and a module
performLocalNameSearch(itemsFound, chain, k, statementToSearchUpTo) ==
    IF chain[k].kind = "Block"
    THEN LET match == lastMatch(chain, k, 1, statementToSearchUpTo, NullStatement)
         IN  IF match # NullStatement THEN addResult(itemsFound, match) ELSE itemsFound
    ELSE IF chain[k].kind = "Function"
    THEN addFirstWithName(itemsFound, chain, k, "variable", targetName)
    ELSE addFunctions(addFirstWithName(itemsFound, chain, k, "variable", targetName),
                      chain, k, 1)

\* Scope::getAsStatement, which no scope overrides
getAsStatement(chain, k) == NullStatement

\* mutant: the search goes on after a scope gave results
RECURSIVE performFullNameSearch_NeverStops(_, _, _, _)
performFullNameSearch_NeverStops(search, chain, k, statementToSearchUpTo) ==
    IF k > Len(chain) THEN search
    ELSE IF search.onlyFindLocalVariables /\ chain[k].kind # "Block" THEN search
    ELSE performFullNameSearch_NeverStops(
            [search EXCEPT !.itemsFound =
                performLocalNameSearch(search.itemsFound, chain, k, statementToSearchUpTo)],
            chain, k + 1, getAsStatement(chain, k))

\* Scope::performFullNameSearch: the loop from scope k outward
RECURSIVE performFullNameSearch(_, _, _, _)
performFullNameSearch(search, chain, k, statementToSearchUpTo) ==
    IF k > Len(chain) THEN search
    ELSE IF search.onlyFindLocalVariables /\ chain[k].kind # "Block" THEN search
    ELSE LET searched == [search EXCEPT !.itemsFound =
                 performLocalNameSearch(search.itemsFound, chain, k, statementToSearchUpTo)]
         IN  IF searched.stopAtFirstScopeWithResults /\ searched.itemsFound # <<>>
             THEN searched
             ELSE performFullNameSearch(searched, chain, k + 1, getAsStatement(chain, k))

NumSearchDeclarations ==
    Cardinality({ki \in UNION {{<<k, i>> : i \in DOMAIN nsChain[k].items} : k \in DOMAIN nsChain} :
                    nsChain[ki[1]].items[ki[2]].category # "inner"})

InitSearch ==
    /\ nsChain = <<SearchScope("Block", <<InnerStatement>>)>>
    /\ nsSearch = NoSearch
    /\ Idle("search")

\* the categories a scope of each kind declares
DeclaredIn(kind) == IF kind = "Module" THEN {"variable", "function"} ELSE {"variable"}

\* the parser adds a declaration to the outermost scope so far: in a Block,
\* before or after the statements it has
AddSearchDeclaration ==
    /\ ~nsSearch.done
    /\ NumSearchDeclarations < MaxSearchDeclarations
    /\ LET k == Len(nsChain)
       IN  \E c \in DeclaredIn(nsChain[k].kind), n \in SearchNames,
              before \in (IF nsChain[k].kind = "Block" THEN BOOLEAN ELSE {FALSE}) :
              nsChain' = [nsChain EXCEPT ![k].items =
                            IF before THEN <<SearchItem(c, n)>> \o @
                                      ELSE Append(@, SearchItem(c, n))]
    /\ UNCHANGED nsSearch
    /\ Frame("search")

\* the outermost scope so far lies in a Block, a Function or a module
EncloseScope ==
    /\ ~nsSearch.done
    /\ Len(nsChain) < MaxSearchScopes
    /\ \E kind \in (IF nsChain[Len(nsChain)].kind = "Block" THEN {"Block", "Function"}
                    ELSE {"Module"}) :
          nsChain' = Append(nsChain,
                            SearchScope(kind, IF kind = "Block" THEN <<InnerStatement>> ELSE <<>>))
    /\ UNCHANGED nsSearch
    /\ Frame("search")

\* the search, from the first Block with the statement it is made from
PerformFullNameSearch ==
    /\ ~nsSearch.done
    /\ \E local \in BOOLEAN, stop \in BOOLEAN :
          nsSearch' = performFullNameSearch(
                          [done |-> TRUE, onlyFindLocalVariables |-> local,
                           stopAtFirstScopeWithResults |-> stop, itemsFound |-> <<>>],
                          nsChain, 1, <<1, InnerOf(nsChain[1])>>)
    /\ UNCHANGED nsChain
    /\ Frame("search")

NextSearch == AddSearchDeclaration \/ EncloseScope \/ PerformFullNameSearch

SpecSearch == InitSearch /\ [][NextSearch]_vars

\* the declaration of a found local variable comes before the statement of
\* its Block that contains the point of use
PrecedesUse(o) == o[2] < InnerOf(nsChain[o[1]])

FoundLocals == {k \in DOMAIN nsSearch.itemsFound : nsChain[nsSearch.itemsFound[k][1]].kind = "Block"}

\* C24: a local variable is found only if its declaration precedes the point
\* of use in its Block, and it is the last declaration of the name before it
C24_ForwardDeclarationOrder ==
    nsSearch.done =>
        \A f \in FoundLocals :
            LET o == nsSearch.itemsFound[f]
            IN  /\ PrecedesUse(o)
                /\ \A i \in DOMAIN nsChain[o[1]].items :
                      (i < InnerOf(nsChain[o[1]])
                         /\ nsChain[o[1]].items[i] = SearchItem("variable", targetName)) => i <= o[2]

\* what the local search of scope k gives on its own
LocalResults(k) ==
    Range(performLocalNameSearch(<<>>, nsChain, k,
              IF k = 1 THEN <<1, InnerOf(nsChain[1])>> ELSE NullStatement))

\* the scopes the search is to look into: outward from the first, up to the
\* first that is not a Block when only local variables are wanted, and no
\* further than the first that gives a result when the search stops there
SearchedScopes ==
    {k \in DOMAIN nsChain :
        /\ nsSearch.onlyFindLocalVariables => \A j \in 1..k : nsChain[j].kind = "Block"
        /\ nsSearch.stopAtFirstScopeWithResults => \A j \in 1..(k - 1) : LocalResults(j) = {}}

\* C25: the items found are those of the local searches of the scopes from
\* the first outward, Blocks only and up to the first scope that is not a
\* Block under onlyFindLocalVariables, from the innermost scope that gives any
\* under stopAtFirstScopeWithResults, in that order, and no object twice
C25_FullNameSearch ==
    nsSearch.done =>
        /\ Range(nsSearch.itemsFound) = UNION {LocalResults(k) : k \in SearchedScopes}
        /\ Cardinality(Range(nsSearch.itemsFound)) = Len(nsSearch.itemsFound)
        /\ \A a, b \in DOMAIN nsSearch.itemsFound :
              a < b => nsSearch.itemsFound[a][1] <= nsSearch.itemsFound[b][1]
        /\ nsSearch.stopAtFirstScopeWithResults =>
              \A a, b \in DOMAIN nsSearch.itemsFound :
                  nsSearch.itemsFound[a][1] = nsSearch.itemsFound[b][1]
        /\ nsSearch.onlyFindLocalVariables =>
              \A a \in DOMAIN nsSearch.itemsFound : nsChain[nsSearch.itemsFound[a][1]].kind = "Block"

\* a search that stops at the first scope with results found the local
\* variable and left the module's variable of the same name
C25_Witness ==
    /\ nsSearch.done
    /\ nsSearch.stopAtFirstScopeWithResults
    /\ nsSearch.itemsFound = <<<<1, 1>>>>
    /\ \E k \in DOMAIN nsChain :
          /\ nsChain[k].kind = "Module"
          /\ \E i \in DOMAIN nsChain[k].items : nsChain[k].items[i] = SearchItem("variable", targetName)

----------------------------------------------------------------------------
(* SanityCheckPass::expectSilentCastPossible for one target type *)

MaxListItems == 2
MaxListDepth == 1

VectorOf(elementType, n) == [kind |-> "vector", size |-> n, of |-> <<elementType>>]

ListScalarTypes == { LeafType("int32"), LeafType("float32") }

ListTargetTypes ==
    ListScalarTypes
        \cup { ArrayType(LeafType("int32"), n) : n \in 1..2 }
        \cup { VectorOf(LeafType("float32"), 2),
               StructType(<<LeafType("int32"), LeafType("float32")>>) }

\* Type
isArrayOrVector(type) == type.kind \in {"array", "vector"}
isStructType(type) == type.kind = "struct"
isFixedSizeAggregate(type) == isArrayOrVector(type) \/ isStructType(type)
getNumAggregateElements(type) == IF isStructType(type) THEN Len(type.of) ELSE type.size
elementTypeOf(type) == type.of[1]
getMemberType(type, i) == type.of[i]

\* a source expression: a value, with the types TypeRules lets it be cast to
\* silently, or a CommaSeparatedList of expressions
ValueExpression(class, silentCasts) ==
    [class |-> class, silentCasts |-> silentCasts, items |-> <<>>]
CommaSeparatedList(items) ==
    [class |-> "CommaSeparatedList", silentCasts |-> {}, items |-> items]
ValueExpressions ==
    { ValueExpression(c, s) : c \in {"Constant", "VariableRef"},
                              s \in { {}, {LeafType("int32"), LeafType("float32")},
                                      {LeafType("float32")} } }

RECURSIVE ListDepth(_)
ListDepth(e) ==
    IF e.class # "CommaSeparatedList" THEN 0
    ELSE LET depths == {0} \cup { ListDepth(e.items[i]) : i \in DOMAIN e.items }
         IN  1 + (CHOOSE d \in depths : \A o \in depths : o <= d)

throwErrorIfWrongNumberOfElements(type, numberAvailable) ==
    IF isFixedSizeAggregate(type) /\ getNumAggregateElements(type) # numberAvailable
    THEN Error("wrongNumArgsForAggregate", type.kind)
    ELSE Ok


\* the error of the first item that has one
RECURSIVE firstItemError(_, _)
firstItemError(results, i) ==
    IF i > Len(results) THEN Ok
    ELSE IF results[i] # Ok THEN results[i]
    ELSE firstItemError(results, i + 1)

RECURSIVE expectSilentCastPossibleOfType(_, _)
expectSilentCastPossibleOfType(targetType, source) ==
    IF source.class = "CommaSeparatedList"
    THEN LET wrongNumber == throwErrorIfWrongNumberOfElements(targetType, Len(source.items))
         IN  IF wrongNumber # Ok THEN wrongNumber
             ELSE IF isArrayOrVector(targetType)
             THEN firstItemError([i \in DOMAIN source.items |->
                      expectSilentCastPossibleOfType(elementTypeOf(targetType), source.items[i])], 1)
             ELSE IF isStructType(targetType)
             THEN firstItemError([i \in DOMAIN source.items |->
                      expectSilentCastPossibleOfType(getMemberType(targetType, i), source.items[i])], 1)
             ELSE Error("cannotCastListToType", targetType.kind)
    ELSE IF targetType \notin source.silentCasts
    THEN IF source.class = "Constant"
         THEN Error("cannotImplicitlyCastValue", targetType.kind)
         ELSE Error("cannotImplicitlyCastType", targetType.kind)
    ELSE Ok

InitList ==
    /\ listTarget \in ListTargetTypes
    /\ listSource \in ValueExpressions
    /\ listResult = NoResult
    /\ Idle("list")

\* the parser puts the expression in a list of one item
MakeList ==
    /\ listResult = NoResult
    /\ ListDepth(listSource) < MaxListDepth
    /\ listSource' = CommaSeparatedList(<<listSource>>)
    /\ UNCHANGED <<listTarget, listResult>>
    /\ Frame("list")

\* the parser adds an item to the list
AddItem ==
    /\ listResult = NoResult
    /\ listSource.class = "CommaSeparatedList"
    /\ Len(listSource.items) < MaxListItems
    /\ \E e \in ValueExpressions :
           listSource' = CommaSeparatedList(Append(listSource.items, e))
    /\ UNCHANGED <<listTarget, listResult>>
    /\ Frame("list")

ExpectSilentCastPossibleOfType ==
    /\ listResult = NoResult
    /\ listResult' = expectSilentCastPossibleOfType(listTarget, listSource)
    /\ UNCHANGED <<listTarget, listSource>>
    /\ Frame("list")

NextList == MakeList \/ AddItem \/ ExpectSilentCastPossibleOfType

SpecList == InitList /\ [][NextList]_vars

\* C26: a list of exactly one item checked against a scalar target type is
\* reduced to its item: the check has the outcome that the check of the item
\* against the target type has, so it completes exactly when the item can be
\* cast silently to the target type
C26_SingleItemListToScalar ==
    (/\ listResult # NoResult
     /\ ~isFixedSizeAggregate(listTarget)
     /\ listSource.class = "CommaSeparatedList"
     /\ Len(listSource.items) = 1)
        => /\ listResult = expectSilentCastPossibleOfType(listTarget, listSource.items[1])
           /\ (listResult = Ok) <=> (listTarget \in listSource.items[1].silentCasts)

----------------------------------------------------------------------------
(* Value::PackedData::setFrom (ArrayView<Value>): aggregate initialisation *)

MaxAggregateSize == 3
MaxValues == 3

\* an array, a vector or a struct whose elements are primitives; the data
\* holds one number for each element
AggregateType(kind, members) == [kind |-> kind, members |-> members]
AggregateElementKinds == {"int32", "float32"}
MemberLists == UNION { [1..n -> AggregateElementKinds] : n \in 1..MaxAggregateSize }
AggregateTypes ==
    { AggregateType(k, [i \in 1..n |-> e]) :
          k \in {"array", "vector"}, e \in AggregateElementKinds, n \in 1..MaxAggregateSize }
        \cup { AggregateType("struct", m) : m \in MemberLists }
        \cup { AggregateType("primitive", <<"int32">>) }

isArrayOrVectorData(p) == p.type.kind \in {"array", "vector"}
isStructData(p) == p.type.kind = "struct"
getNumElements(p) == Len(p.type.members)

\* the values a caller hands over: 3, -1 and 0 as int32, 1.5 as float32
GivenValues ==
    { [type |-> PrimitiveType("int32"), data |-> <<fromInt(3)>>],
      [type |-> PrimitiveType("int32"), data |-> <<fromInt(0 - 1)>>],
      [type |-> PrimitiveType("int32"), data |-> <<ZeroBytes>>],
      [type |-> PrimitiveType("float32"), data |-> <<Number(FALSE, 3)>>] }

\* ArrayIterator / StructIterator ::get: element i of the aggregate
elementOf(p, i) == [type |-> PrimitiveType(p.type.members[i]), data |-> <<p.data[i]>>]

\* the loops over the destination: element i is set from source(i)
setEachElement(p, source(_)) ==
    [p EXCEPT !.data = [i \in 1..Len(p.data) |-> setFrom(elementOf(p, i), source(i)).data[1]]]

Returned(p) == [data |-> p, outcome |-> "returned"]
AssertionFailed(p) == [data |-> p, outcome |-> "assertionFailed"]

\* mutant: a struct takes a single value for all of its members
setFromValues_StructBroadcast(p, values) ==
    IF Len(values) = 0 THEN Returned(clear(p))
    ELSE IF isArrayOrVectorData(p) \/ isStructData(p)
    THEN IF Len(values) = 1
         THEN Returned(setEachElement(p, LAMBDA i : values[1]))
         ELSE IF Len(values) # getNumElements(p) THEN AssertionFailed(p)
         ELSE Returned(setEachElement(p, LAMBDA i : values[i]))
    ELSE AssertionFailed(p)

\* PackedData::setFrom (ArrayView<Value>)
setFromValues(p, values) ==
    IF Len(values) = 0 THEN Returned(clear(p))
    ELSE IF isArrayOrVectorData(p)
    THEN IF Len(values) = 1
         THEN Returned(setEachElement(p, LAMBDA i : values[1]))
         ELSE IF Len(values) # getNumElements(p) THEN AssertionFailed(p)
         ELSE Returned(setEachElement(p, LAMBDA i : values[i]))
    ELSE IF isStructData(p)
    THEN IF Len(values) # getNumElements(p) THEN AssertionFailed(p)
         ELSE Returned(setEachElement(p, LAMBDA i : values[i]))
    ELSE AssertionFailed(p)

\* an aggregate holds zeros or, in every element, the 7 of an earlier write
InitAgg ==
    /\ \E type \in AggregateTypes, x \in {ZeroBytes, fromInt(7)} :
           aggDest = [type |-> type, data |-> [i \in 1..Len(type.members) |-> x]]
    /\ aggBefore = aggDest
    /\ aggValues = <<>>
    /\ aggOutcome = "none"
    /\ Idle("agg")

\* the caller collects a value
AddValue ==
    /\ aggOutcome = "none"
    /\ Len(aggValues) < MaxValues
    /\ \E v \in GivenValues : aggValues' = Append(aggValues, v)
    /\ UNCHANGED <<aggDest, aggBefore, aggOutcome>>
    /\ Frame("agg")

SetFromValues ==
    /\ aggOutcome = "none"
    /\ LET result == setFromValues(aggDest, aggValues)
       IN  /\ aggDest' = result.data
           /\ aggOutcome' = result.outcome
    /\ UNCHANGED <<aggBefore, aggValues>>
    /\ Frame("agg")

NextAgg == AddValue \/ SetFromValues

SpecAgg == InitAgg /\ [][NextAgg]_vars

FixedSizeAggregate == isArrayOrVectorData(aggDest) \/ isStructData(aggDest)

\* element i holds value v coerced as setFrom coerces it into that element
HoldsCoerced(i, v) ==
    aggDest.data[i] = setFrom(elementOf(aggBefore, i), v).data[1]

Broadcast == \A i \in 1..getNumElements(aggDest) : HoldsCoerced(i, aggValues[1])
ElementWise ==
    /\ Len(aggValues) = getNumElements(aggDest)
    /\ \A i \in 1..getNumElements(aggDest) : HoldsCoerced(i, aggValues[i])

\* C27: setFrom(values) on a fixed-size array, vector or struct.  No value
\* clears the aggregate.  One value given to an array or a vector is set, with
\* the coercion of setFrom, into every element.  Any other sequence, and one
\* value given to a struct, is accepted exactly when its length is the number
\* of elements or members, and then element i is set from values[i] with the
\* coercion of setFrom; a sequence of another length fails an assertion, and
\* the aggregate is left as it was
C27_AggregateInitialisation ==
    (aggOutcome # "none" /\ FixedSizeAggregate) =>
        /\ Len(aggValues) = 0 => aggOutcome = "returned" /\ isZero(aggDest)
        /\ (Len(aggValues) = 1 /\ isArrayOrVectorData(aggDest)) =>
               aggOutcome = "returned" /\ Broadcast
        /\ (Len(aggValues) > 1 \/ (Len(aggValues) = 1 /\ isStructData(aggDest))) =>
               /\ aggOutcome = "returned" <=> Len(aggValues) = getNumElements(aggDest)
               /\ aggOutcome = "returned" => ElementWise
        /\ aggOutcome = "assertionFailed" => aggDest = aggBefore

\* the statement with the broadcast for every fixed-size aggregate and the
\* length rule for every other length
C27_AsStated ==
    (aggOutcome # "none" /\ FixedSizeAggregate) =>
        /\ Len(aggValues) = 1 => aggOutcome = "returned" /\ Broadcast
        /\ Len(aggValues) # 1 =>
               /\ aggOutcome = "returned" <=> Len(aggValues) = getNumElements(aggDest)
               /\ aggOutcome = "returned" => ElementWise
        /\ aggOutcome = "assertionFailed" => aggDest = aggBefore

\* 1.5 given alone to an array of three int32 that held 7 leaves 1 in each
C27_Witness ==
    /\ aggOutcome = "returned"
    /\ aggDest.type = AggregateType("array", <<"int32", "int32", "int32">>)
    /\ aggBefore.data = <<fromInt(7), fromInt(7), fromInt(7)>>
    /\ aggValues = <<[type |-> PrimitiveType("float32"), data |-> <<Number(FALSE, 3)>>]>>
    /\ aggDest.data = <<fromInt(1), fromInt(1), fromInt(1)>>

\* one value given to a struct of two members fails the assertion
C27_WitnessStruct ==
    /\ aggOutcome = "assertionFailed"
    /\ isStructData(aggDest)
    /\ getNumElements(aggDest) = 2
    /\ Len(aggValues) = 1
    /\ aggDest = aggBefore

----------------------------------------------------------------------------
(* SanityCheckPass::runPostResolution: the order of its checkers *)

MaxModuleItems == 2

\* the rules a child of the module (an endpoint, a variable, a function) can
\* break, each named after the checker that enforces it
ItemRules == {"eventFunction", "duplicateName", "semantic", "incDec"}

\* the checkers in the order of the description
PassOrder == <<"eventFunction", "duplicateName", "semantic", "recursion", "cycle", "incDec">>

Diagnostic(pass, item) == [pass |-> pass, item |-> item]
NoViolation == Diagnostic("none", 0)

\* ASTVisitor::visitObject for one checker: the children in order, the first
\* that breaks the checker's rule raising
RECURSIVE visitItems(_, _, _)
visitItems(items, rule, i) ==
    IF i > Len(items) THEN NoViolation
    ELSE IF rule \in items[i] THEN Diagnostic(rule, i)
    ELSE visitItems(items, rule, i + 1)

\* mutant: the cycle detector runs before the recursion detector
PostResolutionChecks_visitGraph_CycleFirst(g) ==
    LET children == visitItems(g.items, "semantic", 1)
    IN  IF children # NoViolation THEN children
        ELSE IF g.hasCycle THEN Diagnostic("cycle", 0)
        ELSE IF g.containsItself THEN Diagnostic("recursion", 0)
        ELSE NoViolation

\* PostResolutionChecks::visit (AST::Graph&): the children and the endpoint
\* types, then RecursiveGraphDetector::check, then CycleDetector (g).check()
PostResolutionChecks_visitGraph(g) ==
    LET children == visitItems(g.items, "semantic", 1)
    IN  IF children # NoViolation THEN children
        ELSE IF g.containsItself THEN Diagnostic("recursion", 0)
        ELSE IF g.hasCycle THEN Diagnostic("cycle", 0)
        ELSE NoViolation

\* PostResolutionChecks().visitObject (module)
PostResolutionChecks_visitObject(module) ==
    IF module.kind = "Graph" THEN PostResolutionChecks_visitGraph(module)
    ELSE visitItems(module.items, "semantic", 1)

\* runPostResolution: the four visitors one after the other, each started
\* only when the one before it raised nothing
runPostResolutionPasses(module) ==
    LET events == visitItems(module.items, "eventFunction", 1)
        names == visitItems(module.items, "duplicateName", 1)
        checks == PostResolutionChecks_visitObject(module)
    IN  IF events # NoViolation THEN events
        ELSE IF names # NoViolation THEN names
        ELSE IF checks # NoViolation THEN checks
        ELSE visitItems(module.items, "incDec", 1)

\* a Processor, or a Graph that may contain itself among its processor
\* instances and may have a cycle among its connections
InitOrder ==
    /\ orderModule \in
           { [kind |-> "Processor", items |-> <<>>, containsItself |-> FALSE, hasCycle |-> FALSE] }
           \cup [kind : {"Graph"}, items : {<<>>}, containsItself : BOOLEAN, hasCycle : BOOLEAN]
    /\ orderDiagnostic = NoDiagnostic
    /\ Idle("order")

\* the parser adds a child to the module
DeclareItem ==
    /\ orderDiagnostic = NoDiagnostic
    /\ Len(orderModule.items) < MaxModuleItems
    /\ \E broken \in SUBSET ItemRules :
           orderModule' = [orderModule EXCEPT !.items = Append(@, broken)]
    /\ UNCHANGED orderDiagnostic
    /\ Frame("order")

RunPostResolutionPasses ==
    /\ orderDiagnostic = NoDiagnostic
    /\ orderDiagnostic' = runPostResolutionPasses(orderModule)
    /\ UNCHANGED orderModule
    /\ Frame("order")

NextOrder == DeclareItem \/ RunPostResolutionPasses

SpecOrder == InitOrder /\ [][NextOrder]_vars

\* the checkers whose rule the module breaks somewhere
BrokenRules(module) ==
    UNION { module.items[i] : i \in DOMAIN module.items }
        \cup (IF module.containsItself THEN {"recursion"} ELSE {})
        \cup (IF module.hasCycle THEN {"cycle"} ELSE {})

C28_WitnessRecursion ==
    /\ orderModule.containsItself /\ orderModule.hasCycle
    /\ orderModule.items = <<{"incDec"}>>
    /\ orderDiagnostic = Diagnostic("recursion", 0)

----------------------------------------------------------------------------
(* CycleDetector::check and RecursiveGraphDetector::check, call by call *)

MaxEdges == 3

\* the processor instances of a graph (CycleDetector), or the graphs
\* (RecursiveGraphDetector), in declaration order
StepNodes == <<"a", "b", "c">>
NumStepNodes == Len(StepNodes)

\* what an edge leads to: for the cycle detector a source node; for the
\* recursion detector the graph a processor instance names, or "null" when
\* the instance names a processor or nothing that is found
StepTargets(detector) ==
    IF detector = "CycleDetector" THEN Range(StepNodes)
    ELSE Range(StepNodes) \cup {"null"}

NumEdges == Len(stepEdges["a"]) + Len(stepEdges["b"]) + Len(stepEdges["c"])

StackEntry(node, next) == [node |-> node, next |-> next]
StackNodes(stack) == { stack[i].node : i \in DOMAIN stack }

\* mutant: only the top entry of the stack is compared
isOnStack_TopOnly(stack, node) == stack # <<>> /\ stack[1].node = node

\* for (auto s = stack; s != nullptr; s = s->previous) if (s->node == &node)
isOnStack(stack, node) == \E i \in DOMAIN stack : stack[i].node = node

\* the entry on top moves its loop on by one
advance(stack) == <<[stack[1] EXCEPT !.next = @ + 1]>> \o Tail(stack)

InitSteps ==
    /\ stepDetector \in {"CycleDetector", "RecursiveGraphDetector"}
    /\ stepEdges = [n \in Range(StepNodes) |-> <<>>]
    /\ stepStack = <<>>
    /\ stepRoot = 0
    /\ stepState = "building"
    /\ Idle("steps")

\* the constructor adds a source to a node; the parser adds a processor
\* instance to a graph
AddEdge ==
    /\ stepState = "building"
    /\ NumEdges < MaxEdges
    /\ \E n \in Range(StepNodes), t \in StepTargets(stepDetector) :
           stepEdges' = [stepEdges EXCEPT ![n] = Append(@, t)]
    /\ UNCHANGED <<stepDetector, stepStack, stepRoot, stepState>>
    /\ Frame("steps")

\* check() enters its loop over the nodes; check (g) is called on a graph
StartCheck ==
    /\ stepState = "building"
    /\ stepState' = "running"
    /\ \E root \in 1..NumStepNodes :
           /\ stepDetector = "CycleDetector" => root = 1
           /\ stepRoot' = root
           /\ stepStack' = <<StackEntry(StepNodes[root], 1)>>
    /\ UNCHANGED <<stepDetector, stepEdges>>
    /\ Frame("steps")

TopNode == stepStack[1].node
LoopAtEnd == stepStack[1].next > Len(stepEdges[TopNode])
NextTarget == stepEdges[TopNode][stepStack[1].next]
Stepping(detector) ==
    stepState = "running" /\ stepDetector = detector /\ stepStack # <<>>

\* the stack of the model holds one entry more than any stack without a
\* repeated node, which is where a search that never ends is stopped
StackCap == NumStepNodes + 1

\* CycleDetector::check (node, stack): the source is on the stack
CycleDetector_throwCycleError ==
    /\ Stepping("CycleDetector") /\ ~LoopAtEnd
    /\ isOnStack(stepStack, NextTarget)
    /\ stepState' = "raised"
    /\ UNCHANGED <<stepDetector, stepEdges, stepStack, stepRoot>>
    /\ Frame("steps")

\* CycleDetector::check (node, stack): the source is pushed and its own
\* sources are checked
CycleDetector_checkSource ==
    /\ Stepping("CycleDetector") /\ ~LoopAtEnd
    /\ ~isOnStack(stepStack, NextTarget)
    /\ Len(stepStack) <= StackCap
    /\ stepStack' = <<StackEntry(NextTarget, 1)>> \o advance(stepStack)
    /\ UNCHANGED <<stepDetector, stepEdges, stepRoot, stepState>>
    /\ Frame("steps")

\* CycleDetector::check (node, stack) returns to its caller; check() goes on
\* to its next node or returns
CycleDetector_return ==
    /\ Stepping("CycleDetector") /\ LoopAtEnd
    /\ IF Len(stepStack) > 1
       THEN stepStack' = Tail(stepStack) /\ UNCHANGED <<stepRoot, stepState>>
       ELSE IF stepRoot < NumStepNodes
       THEN /\ stepRoot' = stepRoot + 1
            /\ stepStack' = <<StackEntry(StepNodes[stepRoot + 1], 1)>>
            /\ UNCHANGED stepState
       ELSE /\ stepStack' = <<>>
            /\ stepState' = "returned"
            /\ UNCHANGED stepRoot
    /\ UNCHANGED <<stepDetector, stepEdges>>
    /\ Frame("steps")

\* RecursiveGraphDetector::check: a processor instance that names no graph
RecursiveGraphDetector_skipInstance ==
    /\ Stepping("RecursiveGraphDetector") /\ ~LoopAtEnd
    /\ NextTarget = "null"
    /\ stepStack' = advance(stepStack)
    /\ UNCHANGED <<stepDetector, stepEdges, stepRoot, stepState>>
    /\ Frame("steps")

\* RecursiveGraphDetector::check (*sub, newStack): sub is on the stack
RecursiveGraphDetector_throwError ==
    /\ Stepping("RecursiveGraphDetector") /\ ~LoopAtEnd
    /\ NextTarget # "null"
    /\ isOnStack(stepStack, NextTarget)
    /\ stepState' = "raised"
    /\ UNCHANGED <<stepDetector, stepEdges, stepStack, stepRoot>>
    /\ Frame("steps")

\* return check (*sub, newStack): sub is pushed
RecursiveGraphDetector_checkSub ==
    /\ Stepping("RecursiveGraphDetector") /\ ~LoopAtEnd
    /\ NextTarget # "null"
    /\ ~isOnStack(stepStack, NextTarget)
    /\ Len(stepStack) <= StackCap
    /\ stepStack' = <<StackEntry(NextTarget, 1)>> \o advance(stepStack)
    /\ UNCHANGED <<stepDetector, stepEdges, stepRoot, stepState>>
    /\ Frame("steps")

\* no instance of the graph on top names a graph: the check returns, and
\* with it every check below it
RecursiveGraphDetector_return ==
    /\ Stepping("RecursiveGraphDetector") /\ LoopAtEnd
    /\ stepStack' = <<>>
    /\ stepState' = "returned"
    /\ UNCHANGED <<stepDetector, stepEdges, stepRoot>>
    /\ Frame("steps")

NextSteps ==
    \/ AddEdge
    \/ StartCheck
    \/ CycleDetector_throwCycleError
    \/ CycleDetector_checkSource
    \/ CycleDetector_return
    \/ RecursiveGraphDetector_skipInstance
    \/ RecursiveGraphDetector_throwError
    \/ RecursiveGraphDetector_checkSub
    \/ RecursiveGraphDetector_return

SpecSteps == InitSteps /\ [][NextSteps]_vars

\* a check that has been called goes on until it returns or raises
SpecStepsLive == SpecSteps /\ WF_vars(NextSteps)

StackDepthBounded ==
    /\ Len(stepStack) <= NumStepNodes + 1
    /\ \A i, j \in DOMAIN stepStack : stepStack[i].node = stepStack[j].node => i = j

\* C30: the cycle detector and the recursion detector end on every graph:
\* a check that runs returns or raises, and the visited stack never holds
\* more entries than there are nodes plus one, no node being on it twice
C30_DetectorsTerminate ==
    /\ []StackDepthBounded
    /\ (stepState = "running") ~> (stepState \in {"returned", "raised"})

\* the stack holds every node of a graph that has a cycle, and the check
\* then raises
C30_Witness ==
    /\ stepState = "raised"
    /\ Len(stepStack) = NumStepNodes
    /\ NumEdges = MaxEdges

====
